---- MODULE Spec2Model ----
(***************************************************************************)
(* Alpha-mask refinement of the bgremover scripts and package.             *)
(*                                                                         *)
(* An image is the numpy array the stages pass around: a record            *)
(*   [h |-> rows, w |-> columns, px |-> [<<y, x>> |-> [r, g, b, a]]]       *)
(* with 8-bit channels.  Every stage of the source is an operator from     *)
(* arrays to arrays; the specifications below feed the stages with arrays  *)
(* drawn from bounded sets and run the pipelines step by step.             *)
(***************************************************************************)
EXTENDS Integers, Sequences, FiniteSets, TLC

VARIABLES
    img,      \* result_array: the array the stages transform
    orig,     \* the array as returned by the segmentation call
    thr,      \* min_alpha_threshold / threshold of the preserve resolvers
    thrE,     \* alpha_threshold of the eliminate resolver (bg_remover_clean.py)
    flags,    \* preserve_elements and smooth_edges of BackgroundRemover.remove_background
    prog,     \* the function that is running or has run
    pc,       \* position inside the running function
    raised,   \* the step whose exception ended the run ("none" when none did)
    ret,      \* value returned by the processing function ("none" before it returns)
    exists,   \* os.path.exists(input_path)
    outfile,  \* the file at output_path: absent, as it was before the run, or written
    members,  \* what each model of an ensemble does when called: raises or returns a mask
    exitcode, \* exit status of the process (-1 while it runs)
    batch,    \* batch_process_images: the directory listing, the position, the results
    canny     \* careful_trim.py: the pixels cv2.Canny marks in the original image

vars == <<img, orig, thr, thrE, flags, prog, pc, raised, ret, exists, outfile,
          members, exitcode, batch, canny>>

\* the state of the ensembles, of the command line, of the batch loop and of the
\* protection step
aux == <<members, exitcode, batch, canny>>

(***************************************************************************)
(* Arrays                                                                  *)
(***************************************************************************)
Pixels(h, w) == (0 .. h - 1) \X (0 .. w - 1)

Pixel(r, g, b, a) == [r |-> r, g |-> g, b |-> b, a |-> a]

\* result[:,:,3] with every entry replaced by newAlpha; RGB is not touched
WithAlpha(arr, newAlpha) ==
    [arr EXCEPT !.px = [p \in DOMAIN arr.px |-> [arr.px[p] EXCEPT !.a = newAlpha[p]]]]

Alpha(arr) == [p \in DOMAIN arr.px |-> arr.px[p].a]

RGB(arr) == [p \in DOMAIN arr.px |-> <<arr.px[p].r, arr.px[p].g, arr.px[p].b>>]

(***************************************************************************)
(* Ambiguous-region resolvers                                              *)
(*                                                                         *)
(* In all of them `alpha = result[:,:,3]` is a numpy view of `result`, so  *)
(* the second mask is computed from the alpha the first assignment has     *)
(* already written.                                                        *)
(***************************************************************************)

\* the resolver with the element mask taken strictly above the threshold
fix_partial_transparencies_gt(img_array, min_threshold) ==
    LET alpha0 == Alpha(img_array)
        alpha1 == [p \in DOMAIN alpha0 |->
                     IF alpha0[p] > 0 /\ alpha0[p] < min_threshold THEN 0 ELSE alpha0[p]]
        alpha2 == [p \in DOMAIN alpha0 |->
                     IF alpha1[p] > min_threshold /\ alpha1[p] < 255 THEN 255 ELSE alpha1[p]]
    IN  WithAlpha(img_array, alpha2)

\* bgremover.py: noise below the threshold to 0, the rest below 255 to 255
fix_partial_transparencies(img_array, min_threshold) ==
    LET alpha0 == Alpha(img_array)
        \* noise_mask = (alpha > 0) & (alpha < min_threshold); result[noise_mask, 3] = 0
        alpha1 == [p \in DOMAIN alpha0 |->
                     IF alpha0[p] > 0 /\ alpha0[p] < min_threshold THEN 0 ELSE alpha0[p]]
        \* character_elements_mask = (alpha >= min_threshold) & (alpha < 255); ... = 255
        alpha2 == [p \in DOMAIN alpha0 |->
                     IF alpha1[p] >= min_threshold /\ alpha1[p] < 255 THEN 255 ELSE alpha1[p]]
    IN  WithAlpha(img_array, alpha2)

\* the package resolver with the element mask taken strictly above the threshold
core_fix_partial_transparencies_gt(img_array, min_threshold) ==
    fix_partial_transparencies_gt(img_array, min_threshold)

\* bgremover_package/core.py: BackgroundRemover._fix_partial_transparencies
core_fix_partial_transparencies(img_array, min_threshold) ==
    LET alpha0 == Alpha(img_array)
        alpha1 == [p \in DOMAIN alpha0 |->
                     IF alpha0[p] > 0 /\ alpha0[p] < min_threshold THEN 0 ELSE alpha0[p]]
        alpha2 == [p \in DOMAIN alpha0 |->
                     IF alpha1[p] >= min_threshold /\ alpha1[p] < 255 THEN 255 ELSE alpha1[p]]
    IN  WithAlpha(img_array, alpha2)

\* bgremover_standalone.py: BackgroundRemoverStandalone._fix_transparencies
standalone_fix_transparencies(img_array, threshold) ==
    LET alpha0 == Alpha(img_array)
        alpha1 == [p \in DOMAIN alpha0 |->
                     IF alpha0[p] > 0 /\ alpha0[p] < threshold THEN 0 ELSE alpha0[p]]
        alpha2 == [p \in DOMAIN alpha0 |->
                     IF alpha1[p] >= threshold /\ alpha1[p] < 255 THEN 255 ELSE alpha1[p]]
    IN  WithAlpha(img_array, alpha2)

\* the eliminate resolver without its second step: opacities at or above the
\* threshold are left as they are
clean_partial_transparencies_keep(img_array, threshold) ==
    WithAlpha(img_array,
        [p \in DOMAIN img_array.px |->
            LET a == img_array.px[p].a
            IN  IF a > 0 /\ a < threshold THEN 0 ELSE a])

\* archive/bg_remover_clean.py: partial values below the threshold to 0, the rest to 255
clean_partial_transparencies(img_array, threshold) ==
    LET alpha0 == Alpha(img_array)
        \* problematic_mask = (alpha > 0) & (alpha < threshold); result[problematic_mask, 3] = 0
        alpha1 == [p \in DOMAIN alpha0 |->
                     IF alpha0[p] > 0 /\ alpha0[p] < threshold THEN 0 ELSE alpha0[p]]
        \* solid_mask = alpha >= threshold; result[solid_mask, 3] = 255
        alpha2 == [p \in DOMAIN alpha0 |->
                     IF alpha1[p] >= threshold THEN 255 ELSE alpha1[p]]
    IN  WithAlpha(img_array, alpha2)

(***************************************************************************)
(* Inputs of the resolver specification                                    *)
(***************************************************************************)
\* number of pixels of the one-row masks the resolvers are run on
ResLen == 2

\* opacities around the thresholds and the two extremes
AlphaVals == {0, 1, 49, 50, 120, 150, 254, 255}

\* thresholds the interface accepts (0-255): both ends, the defaults 50 and 150
ThrVals == {0, 1, 50, 150, 255}

Red == <<255, 0, 0>>

MaskImages(h, w, colours, alphas) ==
    { [h |-> h, w |-> w, px |-> f] :
        f \in [Pixels(h, w) -> { Pixel(c[1], c[2], c[3], a) : c \in colours, a \in alphas }] }

Idle ==
    /\ prog = "none"
    /\ pc = "input"

\* a stage applied on its own returns; nothing but the array and the position change
Finish(name) ==
    /\ prog' = name
    /\ pc' = "done"
    /\ UNCHANGED <<orig, thr, thrE, flags, raised, ret, exists, outfile, aux>>

\* no array: result_array before the segmentation call and after the function returned
NoImage == [h |-> 0, w |-> 0, px |-> <<>>]

AllStages == [preserve |-> TRUE, smooth |-> TRUE]

Absent == [status |-> "absent", data |-> NoImage]

\* no ensemble, no command line, no batch
NoAux ==
    /\ members = <<>>
    /\ exitcode = -1
    /\ batch = <<>>
    /\ canny = {}

\* the rest of the state when a stage is run on its own
NoRun ==
    /\ prog = "none"
    /\ pc = "input"
    /\ flags = AllStages
    /\ raised = "none"
    /\ ret = "none"
    /\ exists = TRUE
    /\ outfile = Absent
    /\ NoAux

InitResolve ==
    /\ img \in MaskImages(1, ResLen, {Red}, AlphaVals)
    /\ orig = img
    /\ thr \in ThrVals
    /\ thrE \in ThrVals
    /\ NoRun

Do_fix_partial_transparencies ==
    /\ Idle
    /\ img' = fix_partial_transparencies(img, thr)
    /\ Finish("fix_partial_transparencies")

Do_core_fix_partial_transparencies ==
    /\ Idle
    /\ img' = core_fix_partial_transparencies(img, thr)
    /\ Finish("core_fix_partial_transparencies")

Do_standalone_fix_transparencies ==
    /\ Idle
    /\ img' = standalone_fix_transparencies(img, thr)
    /\ Finish("standalone_fix_transparencies")

Do_clean_partial_transparencies ==
    /\ Idle
    /\ img' = clean_partial_transparencies(img, thrE)
    /\ Finish("clean_partial_transparencies")

NextResolve ==
    \/ Do_fix_partial_transparencies
    \/ Do_core_fix_partial_transparencies
    \/ Do_standalone_fix_transparencies
    \/ Do_clean_partial_transparencies

SpecResolve == InitResolve /\ [][NextResolve]_vars

PreserveResolvers ==
    {"fix_partial_transparencies", "core_fix_partial_transparencies",
     "standalone_fix_transparencies"}

Resolvers == PreserveResolvers \cup {"clean_partial_transparencies"}

\* C2: after any of the four resolvers every pixel's opacity is exactly 0 or 255,
\* for every input mask and every threshold in 0..255.
C2_ResolverOutputBinary ==
    prog \in Resolvers => \A p \in DOMAIN img.px : img.px[p].a \in {0, 255}

\* a run of the preserve resolver that removed a noise pixel, promoted an
\* ambiguous one and met a pixel exactly at the threshold
C2_Witness ==
    /\ prog = "fix_partial_transparencies"
    /\ thr = 50
    /\ \E p, q \in DOMAIN img.px :
          /\ orig.px[p].a = 49 /\ img.px[p].a = 0
          /\ orig.px[q].a = 50 /\ img.px[q].a = 255

\* C3: a pixel with thr <= a < thrE ends at 0 under the eliminate policy and at
\* 255 under the preserve policy; pixels at 0 stay 0 and pixels at 255 stay 255
\* under both policies.
C3_PoliciesDifferOnlyOnAmbiguous ==
    /\ prog = "fix_partial_transparencies" =>
          \A p \in DOMAIN img.px :
              /\ (thr <= orig.px[p].a /\ orig.px[p].a < thrE) => img.px[p].a = 255
              /\ orig.px[p].a = 0 => img.px[p].a = 0
              /\ orig.px[p].a = 255 => img.px[p].a = 255
    /\ prog = "clean_partial_transparencies" =>
          \A p \in DOMAIN img.px :
              /\ (thr <= orig.px[p].a /\ orig.px[p].a < thrE) => img.px[p].a = 0
              /\ orig.px[p].a = 0 => img.px[p].a = 0
              /\ orig.px[p].a = 255 => img.px[p].a = 255

\* the three classes of the classification rule for a threshold pair
InBackground(a, low) == a <= low
InAmbiguous(a, low, high) == low < a /\ a < high
InForeground(a, high) == a >= high

NumClasses(a, low, high) ==
    (IF InBackground(a, low) THEN 1 ELSE 0)
    + (IF InAmbiguous(a, low, high) THEN 1 ELSE 0)
    + (IF InForeground(a, high) THEN 1 ELSE 0)

SingleThresholdResolvers ==
    {"core_fix_partial_transparencies", "standalone_fix_transparencies"}

\* the single-threshold code resolves a pixel exactly at the threshold to foreground
AtThresholdIsForeground ==
    prog \in SingleThresholdResolvers =>
        \A p \in DOMAIN img.px : orig.px[p].a = thr => img.px[p].a = 255

Reflect101(i, n) ==
    IF n = 1 THEN 0
    ELSE IF i < 0 THEN 0 - i
    ELSE IF i >= n THEN 2 * (n - 1) - i
    ELSE i

\* The 3x3 kernels cv2.GaussianBlur(alpha, (3, 3), sigma) builds for the sigmas of
\* the source, w(d) = exp(-d^2 / (2 sigma^2)) normalised, as the products of the
\* row and column weights in millionths (c centre, e edge, k corner; c+4e+4k = 10^6).
\* The float32 arithmetic of the source is modelled by exact integer arithmetic
\* on these weights.
GaussKernel_02 == [c |-> 999984, e |-> 4, k |-> 0]
GaussKernel_03 == [c |-> 984712, e |-> 3807, k |-> 15]
GaussKernel_05 == [c |-> 619348, e |-> 83819, k |-> 11344]

Million == 1000 * 1000

\* cv2.GaussianBlur on the float32 alpha plane: the blurred value of every pixel,
\* in millionths of an opacity step
GaussianBlur(alpha, h, w, K) ==
    [p \in DOMAIN alpha |->
        LET at(dy, dx) == alpha[<<Reflect101(p[1] + dy, h), Reflect101(p[2] + dx, w)>>]
        IN  K.c * at(0, 0)
            + K.e * (at(-1, 0) + at(1, 0) + at(0, -1) + at(0, 1))
            + K.k * (at(-1, -1) + at(-1, 1) + at(1, -1) + at(1, 1))]

\* structuring elements as sets of offsets <<dy, dx>> from the anchor
\* np.ones((3, 3), np.uint8)
Ones3 == (-1 .. 1) \X (-1 .. 1)

\* cv2.getStructuringElement(cv2.MORPH_ELLIPSE, (3, 3)): the cross
Ellipse3 == {<<0, 0>>, <<-1, 0>>, <<1, 0>>, <<0, -1>>, <<0, 1>>}

\* cv2.getStructuringElement(cv2.MORPH_ELLIPSE, (5, 5)): rows -1..1 full, rows -2 and 2
\* only the middle column
Ellipse5 == ((-1 .. 1) \X (-2 .. 2)) \cup {<<-2, 0>>, <<2, 0>>}

\* the pixel under offset d of the kernel anchored at p
Shift(p, d) == <<p[1] + d[1], p[2] + d[2]>>

\* cv2.dilate of a binary plane (the set of its 1-pixels), one iteration: the
\* maximum under the kernel; what lies outside the image is ignored
\* (morphologyDefaultBorderValue)
Dilate(ones, kernel, dom) ==
    { p \in dom : \E d \in kernel : Shift(p, d) \in ones }

\* cv2.erode of a binary plane, one iteration: the minimum under the kernel inside
\* the image
Erode(ones, kernel, dom) ==
    { p \in dom : \A d \in kernel : Shift(p, d) \in dom => Shift(p, d) \in ones }

\* cv2.morphologyEx(plane, cv2.MORPH_GRADIENT, kernel) > 0: dilation minus erosion
MorphGradient(ones, kernel, dom) == Dilate(ones, kernel, dom) \ Erode(ones, kernel, dom)

Visible(arr) == { p \in DOMAIN arr.px : arr.px[p].a > 0 }

(***************************************************************************)
(* Edge smoothers                                                          *)
(***************************************************************************)

\* the smoother without the reset of the fully opaque pixels
smooth_edges_noreset(img_array) ==
    LET alpha == Alpha(img_array)
        alpha_smooth == GaussianBlur(alpha, img_array.h, img_array.w, GaussKernel_05)
    IN  WithAlpha(img_array, [p \in DOMAIN alpha |-> alpha_smooth[p] \div Million])

\* bg_remover.py: blur, put 255 back where alpha was 255, cast to uint8
smooth_edges(img_array) ==
    LET alpha == Alpha(img_array)
        alpha_smooth == GaussianBlur(alpha, img_array.h, img_array.w, GaussKernel_05)
    IN  WithAlpha(img_array,
            [p \in DOMAIN alpha |->
                \* strong_alpha_mask = alpha == 255; alpha_smooth[strong_alpha_mask] = 255
                IF alpha[p] = 255 THEN 255
                \* alpha_smooth.astype(np.uint8) truncates
                ELSE alpha_smooth[p] \div Million])

\* the blend applied to every pixel, without the solid and edge masks
smooth_edges_preserve_everywhere(img_array) ==
    LET alpha == Alpha(img_array)
        blurred == GaussianBlur(alpha, img_array.h, img_array.w, GaussKernel_02)
    IN  WithAlpha(img_array,
            [p \in DOMAIN alpha |->
                (85 * alpha[p] * 10000 + 15 * (blurred[p] \div 100)) \div Million])

\* bgremover.py: blend 15% of the blur into the pixels with 0 < alpha < 255
smooth_edges_preserve(img_array) ==
    LET alpha == Alpha(img_array)
        blurred == GaussianBlur(alpha, img_array.h, img_array.w, GaussKernel_02)
        \* solid_mask = alpha == 255; alpha_blurred[solid_mask] = 255
        alpha_blurred == [p \in DOMAIN alpha |->
                            IF alpha[p] = 255 THEN 255 * Million ELSE blurred[p]]
    IN  WithAlpha(img_array,
            [p \in DOMAIN alpha |->
                \* edge_mask = (alpha > 0) & (alpha < 255)
                IF alpha[p] > 0 /\ alpha[p] < 255
                \* (1 - blend_factor) * alpha + blend_factor * alpha_blurred, blend_factor 0.15
                THEN (85 * alpha[p] * 10000 + 15 * (alpha_blurred[p] \div 100)) \div Million
                ELSE alpha[p]])

\* archive/bg_remover_clean.py: blend 30% of the blur into the pixels with 0 < alpha < 255
smooth_edges_conservative(img_array) ==
    LET alpha == Alpha(img_array)
        blurred == GaussianBlur(alpha, img_array.h, img_array.w, GaussKernel_03)
        \* strong_alpha_mask = alpha == 255; alpha_blurred[strong_alpha_mask] = 255
        alpha_blurred == [p \in DOMAIN alpha |->
                            IF alpha[p] = 255 THEN 255 * Million ELSE blurred[p]]
    IN  WithAlpha(img_array,
            [p \in DOMAIN alpha |->
                IF alpha[p] > 0 /\ alpha[p] < 255
                THEN (70 * alpha[p] * 10000 + 30 * (alpha_blurred[p] \div 100)) \div Million
                ELSE alpha[p]])

\* bgremover_package/core.py: the blur replaces alpha on the morphological gradient
\* of the visible region, whatever the alpha there was
core_smooth_edges_conservative(img_array) ==
    LET alpha == Alpha(img_array)
        alpha_smooth == GaussianBlur(alpha, img_array.h, img_array.w, GaussKernel_05)
        \* edges = cv2.morphologyEx((alpha > 0).astype(np.uint8), cv2.MORPH_GRADIENT, kernel)
        edges == MorphGradient(Visible(img_array), Ones3, DOMAIN alpha)
    IN  WithAlpha(img_array,
            [p \in DOMAIN alpha |->
                \* alpha[edges > 0] = alpha_smooth[edges > 0]; np.clip(alpha, 0, 255).astype(np.uint8)
                IF p \in edges THEN alpha_smooth[p] \div Million ELSE alpha[p]])

\* bgremover_standalone.py: the same smoother
standalone_smooth_edges(img_array) ==
    LET alpha == Alpha(img_array)
        alpha_smooth == GaussianBlur(alpha, img_array.h, img_array.w, GaussKernel_05)
        edges == MorphGradient(Visible(img_array), Ones3, DOMAIN alpha)
    IN  WithAlpha(img_array,
            [p \in DOMAIN alpha |->
                IF p \in edges THEN alpha_smooth[p] \div Million ELSE alpha[p]])

(***************************************************************************)
(* The smoothers on their own                                              *)
(***************************************************************************)
\* side of the Gaussian and gradient kernels: the masks are as high as the kernel
ksize == 3

\* width of the masks the smoothers are run on
SmoothW == 2

\* transparent, partial and fully opaque
SmoothAlphas == {0, 120, 255}

InitSmooth ==
    /\ img \in MaskImages(ksize, SmoothW, {Red}, SmoothAlphas)
    /\ orig = img
    /\ thr = 50
    /\ thrE = 150
    /\ NoRun

Do_smooth_edges ==
    /\ Idle
    /\ img' = smooth_edges(img)
    /\ Finish("smooth_edges")

Do_smooth_edges_preserve ==
    /\ Idle
    /\ img' = smooth_edges_preserve(img)
    /\ Finish("smooth_edges_preserve")

Do_smooth_edges_conservative ==
    /\ Idle
    /\ img' = smooth_edges_conservative(img)
    /\ Finish("smooth_edges_conservative")

Do_core_smooth_edges_conservative ==
    /\ Idle
    /\ img' = core_smooth_edges_conservative(img)
    /\ Finish("core_smooth_edges_conservative")

Do_standalone_smooth_edges ==
    /\ Idle
    /\ img' = standalone_smooth_edges(img)
    /\ Finish("standalone_smooth_edges")

NextSmooth ==
    \/ Do_smooth_edges
    \/ Do_smooth_edges_preserve
    \/ Do_smooth_edges_conservative
    \/ Do_core_smooth_edges_conservative
    \/ Do_standalone_smooth_edges

SpecSmooth == InitSmooth /\ [][NextSmooth]_vars

ScriptSmoothers == {"smooth_edges", "smooth_edges_preserve", "smooth_edges_conservative"}

PackageSmoothers == {"core_smooth_edges_conservative", "standalone_smooth_edges"}

OpaqueKept == \A p \in DOMAIN img.px : orig.px[p].a = 255 => img.px[p].a = 255

\* C6: the three script smoothers leave every pixel whose opacity before the blur
\* was 255 at exactly 255, for every input mask.
C6_ScriptSmoothersKeepOpaque == prog \in ScriptSmoothers => OpaqueKept

\* smooth_edges ran on a mask with an opaque pixel next to a transparent one and
\* changed some other pixel
C6_Witness ==
    /\ prog = "smooth_edges"
    /\ orig.px[<<0, 0>>].a = 255
    /\ orig.px[<<0, 1>>].a = 0
    /\ \E p \in DOMAIN img.px : img.px[p].a # orig.px[p].a

\* C7: the package smoother (core.py and standalone) leaves every pixel whose
\* opacity before the blur was 255 unchanged, also next to a transparent pixel.
C7_PackageSmootherKeepsOpaque == prog \in PackageSmoothers => OpaqueKept

(***************************************************************************)
(* Connected components                                                    *)
(***************************************************************************)
\* 8-connectivity, the default of cv2.connectedComponents
Adjacent8(p, q) ==
    /\ p # q
    /\ p[1] - q[1] \in -1 .. 1
    /\ p[2] - q[2] \in -1 .. 1

\* the eight neighbours of a pixel
Neighbours8(p) == { q \in { Shift(p, d) : d \in Ones3 } : Adjacent8(p, q) }

RECURSIVE Grow(_, _)
\* the connected region of `ones` that holds the pixels of `seed`
Grow(seed, ones) ==
    LET around == UNION { Neighbours8(s) : s \in seed }
        more == { q \in around : q \in ones /\ q \notin seed }
    IN  IF more = {} THEN seed ELSE Grow(seed \cup more, ones)

RECURSIVE Regions(_)
\* the connected regions of `ones`
Regions(ones) ==
    IF ones = {} THEN {}
    ELSE LET c == Grow({CHOOSE p \in ones : TRUE}, ones)
         IN  {c} \cup Regions(ones \ c)

\* cv2.connectedComponents numbers the components in the order its scan meets
\* them; the order is not part of its contract.  Two scans are modelled: pixel by
\* pixel in raster order, and by 2x2 blocks in raster order (the block-based
\* labelling algorithms).
ScanOrders == {"raster", "block"}

ScanKey(p, w, scan) ==
    IF scan = "raster" THEN p[1] * w + p[2] ELSE (p[1] \div 2) * w + (p[2] \div 2)

FirstKey(region, w, scan) ==
    LET keys == { ScanKey(p, w, scan) : p \in region }
    IN  CHOOSE k \in keys : \A j \in keys : k <= j

\* num_labels, labels = cv2.connectedComponents(binary): the components of the
\* 1-pixels, each with its label (1 .. num_labels - 1) and its size np.sum(labels == i)
connectedComponents(ones, w, scan) ==
    LET regions == Regions(ones)
    IN  { [pixels |-> c,
           size   |-> Cardinality(c),
           label  |-> 1 + Cardinality({ d \in regions :
                          FirstKey(d, w, scan) < FirstKey(c, w, scan) })] : c \in regions }

\* (size, label) tuples compare by size, then by label
TupleLess(c, d) == c.size < d.size \/ (c.size = d.size /\ c.label < d.label)

RECURSIVE SortReverse(_)
\* component_sizes.sort(reverse=True)
SortReverse(comps) ==
    IF comps = {} THEN <<>>
    ELSE LET top == CHOOSE c \in comps : \A d \in comps \ {c} : TupleLess(d, c)
         IN  <<top>> \o SortReverse(comps \ {top})

RECURSIVE MainLoopUpToTwo(_, _, _, _)
\* the loop with the fallback taken while fewer than two components are kept
MainLoopUpToTwo(component_sizes, i, total_pixels, main_components) ==
    IF i > Len(component_sizes) THEN main_components
    ELSE LET c == component_sizes[i]
             keep == 100 * c.size >= total_pixels \/ Len(main_components) <= 1
         IN  MainLoopUpToTwo(component_sizes, i + 1, total_pixels,
                      IF keep THEN Append(main_components, c) ELSE main_components)

RECURSIVE MainLoop(_, _, _, _)
\* the loop of connect_main_components that collects main_components
MainLoop(component_sizes, i, total_pixels, main_components) ==
    IF i > Len(component_sizes) THEN main_components
    ELSE LET c == component_sizes[i]
             \* percentage = (size / total_pixels) * 100; percentage >= 1.0
             keep == 100 * c.size >= total_pixels \/ main_components = <<>>
         IN  MainLoop(component_sizes, i + 1, total_pixels,
                      IF keep THEN Append(main_components, c) ELSE main_components)

RECURSIVE MainLoopNoFallback(_, _, _, _)
\* the loop without its `elif len(main_components) == 0` branch
MainLoopNoFallback(component_sizes, i, total_pixels, main_components) ==
    IF i > Len(component_sizes) THEN main_components
    ELSE LET c == component_sizes[i]
         IN  MainLoopNoFallback(component_sizes, i + 1, total_pixels,
                      IF 100 * c.size >= total_pixels
                      THEN Append(main_components, c) ELSE main_components)

PixelsOf(seq) == UNION { seq[i].pixels : i \in 1 .. Len(seq) }

\* result[:,:,3] = alpha * mask, mask a 0/1 plane given as the set of its 1-pixels
MaskAlpha(img_array, mask) ==
    WithAlpha(img_array,
        [p \in DOMAIN img_array.px |-> IF p \in mask THEN img_array.px[p].a * 1 ELSE 0])

\* connect_main_components without the fallback that keeps the largest component
connect_main_components_nofallback(img_array, scan) ==
    LET comps == connectedComponents(Visible(img_array), img_array.w, scan)
        main_components ==
            MainLoopNoFallback(SortReverse(comps), 1, img_array.h * img_array.w, <<>>)
    IN  IF Cardinality(comps) + 1 <= 2 THEN img_array
        ELSE MaskAlpha(img_array, PixelsOf(main_components))

\* archive/bg_remover_clean.py: keep the components of at least 1% of the image,
\* or the largest one when there is none
connect_main_components(img_array, scan) ==
    LET comps == connectedComponents(Visible(img_array), img_array.w, scan)
        main_components ==
            MainLoop(SortReverse(comps), 1, img_array.h * img_array.w, <<>>)
    IN  \* if num_labels <= 2: return img_array
        IF Cardinality(comps) + 1 <= 2 THEN img_array
        ELSE MaskAlpha(img_array, PixelsOf(main_components))

\* if size < 1000
small_component_limit == 1000

RECURSIVE ConnectLoop(_, _, _, _)
\* the loop of connect_components over component_sizes[1:]
ConnectLoop(component_sizes, i, expanded_main, main_mask) ==
    IF i > Len(component_sizes) THEN main_mask
    ELSE LET c == component_sizes[i]
             joins == /\ c.size < small_component_limit
                      /\ expanded_main \cap c.pixels # {}
         IN  ConnectLoop(component_sizes, i + 1, expanded_main,
                         IF joins THEN main_mask \cup c.pixels ELSE main_mask)

\* bg_remover.py: the largest component plus the small components that touch its
\* twice-dilated region
connect_components(img_array, scan) ==
    LET dom == DOMAIN img_array.px
        comps == connectedComponents(Visible(img_array), img_array.w, scan)
        component_sizes == SortReverse(comps)
        main_mask == component_sizes[1].pixels
        \* expanded_main = cv2.dilate(main_mask, kernel, iterations=2)
        expanded_main == Dilate(Dilate(main_mask, Ellipse3, dom), Ellipse3, dom)
    IN  IF Cardinality(comps) + 1 <= 2 THEN img_array
        ELSE MaskAlpha(img_array, ConnectLoop(component_sizes, 2, expanded_main, main_mask))

(***************************************************************************)
(* The reconcilers on their own                                            *)
(***************************************************************************)
\* side of the square images the reconcilers are run on: more than 100 pixels, so
\* that a one-pixel component is below 1% of the image
CompDim == 11

\* the pixels that may be visible: a pair, pixels one step and one gap away from
\* it, a far pair and a far single pixel
CompProbes ==
    {<<0, 0>>, <<0, 1>>, <<1, 0>>, <<0, 3>>, <<1, 4>>, <<5, 5>>, <<5, 6>>, <<9, 9>>}

\* images that are transparent outside the probes
ProbeImages(h, w, probes, colours, alphas) ==
    { [h |-> h, w |-> w,
       px |-> [p \in Pixels(h, w) |-> IF p \in probes THEN f[p] ELSE Pixel(0, 0, 0, 0)]] :
        f \in [probes -> { Pixel(c[1], c[2], c[3], a) : c \in colours, a \in alphas }] }

InitComp ==
    /\ img \in ProbeImages(CompDim, CompDim, CompProbes, {Red}, SmoothAlphas)
    /\ orig = img
    /\ thr = 50
    /\ thrE = 150
    /\ NoRun

Do_connect_main_components ==
    /\ Idle
    /\ \E scan \in ScanOrders : img' = connect_main_components(img, scan)
    /\ Finish("connect_main_components")

Do_connect_components ==
    /\ Idle
    /\ \E scan \in ScanOrders : img' = connect_components(img, scan)
    /\ Finish("connect_components")

NextComp ==
    \/ Do_connect_main_components
    \/ Do_connect_components

SpecComp == InitComp /\ [][NextComp]_vars

Reconcilers == {"connect_main_components", "connect_components"}

\* the connected regions of the visible pixels of the input
InputRegions == { Grow({p}, Visible(orig)) : p \in Visible(orig) }

RegionKept(c) == \A p \in c : img.px[p].a > 0 /\ img.px[p].a = orig.px[p].a

\* C5: both reconcilers keep a largest connected component of the input (the
\* largest one when it is unique), whatever its share of the image, with every
\* pixel still foreground; connect_main_components also keeps every pixel of every
\* component of at least 1% of the image.
C5_LargestComponentKept ==
    (prog \in Reconcilers /\ Visible(orig) # {}) =>
        LET regions == InputRegions
            largest == CHOOSE c \in regions : \A d \in regions : Cardinality(d) <= Cardinality(c)
            kept == { c \in regions : RegionKept(c) }
        IN  /\ \E c \in kept : Cardinality(c) = Cardinality(largest)
            /\ prog = "connect_main_components" =>
                  \A c \in regions : 100 * Cardinality(c) >= orig.h * orig.w => c \in kept

\* connect_main_components ran on a mask whose components are all single pixels
\* (each below 1% of the image), kept one and dropped another
C5_Witness ==
    /\ prog = "connect_main_components"
    /\ Cardinality(InputRegions) >= 2
    /\ \A c \in InputRegions : 100 * Cardinality(c) < orig.h * orig.w
    /\ \E c \in InputRegions : RegionKept(c)
    /\ \E p \in Visible(orig) : img.px[p].a = 0

(***************************************************************************)
(* Residual-colour (white) filters                                         *)
(***************************************************************************)
Max3(r, g, b) == IF r >= g /\ r >= b THEN r ELSE IF g >= b THEN g ELSE b

Min3(r, g, b) == IF r <= g /\ r <= b THEN r ELSE IF g <= b THEN g ELSE b

\* 0.299 * r + 0.587 * g + 0.114 * b, in thousandths
Luminosity(px) == 299 * px.r + 587 * px.g + 114 * px.b

\* saturation < num / den, where saturation is (max_val - min_val) / max_val and
\* stays 0 when max_val is 0
SaturationBelow(px, num, den) ==
    LET max_val == Max3(px.r, px.g, px.b)
        min_val == Min3(px.r, px.g, px.b)
    IN  IF max_val > 0 THEN (max_val - min_val) * den < num * max_val ELSE 0 < num

\* border_width = 10
border_width == 10

\* border_mask[:border_width, :], [-border_width:, :], [:, :border_width], [:, -border_width:]
InBorderMask(p, h, w) ==
    \/ p[1] < border_width
    \/ p[1] >= h - border_width
    \/ p[2] < border_width
    \/ p[2] >= w - border_width

\* the strict filter without its border mask
remove_background_whites_only_noborder(img_array) ==
    WithAlpha(img_array,
        [p \in DOMAIN img_array.px |->
            LET px == img_array.px[p]
            IN  IF /\ px.a > 0
                   /\ Luminosity(px) > 245 * 1000
                   /\ SaturationBelow(px, 5, 100)
                THEN 0 ELSE px.a])

\* the strict filter clearing the whole pixel (result[mask] = 0) instead of its alpha
remove_background_whites_only_clear(img_array) ==
    [img_array EXCEPT !.px =
        [p \in DOMAIN img_array.px |->
            LET px == img_array.px[p]
            IN  IF /\ px.a > 0
                   /\ Luminosity(px) > 245 * 1000
                   /\ SaturationBelow(px, 5, 100)
                   /\ InBorderMask(p, img_array.h, img_array.w)
                THEN Pixel(0, 0, 0, 0) ELSE px]]

\* bgremover.py: visible pixels of luminosity > 245 and saturation < 0.05 inside the
\* border band become transparent
remove_background_whites_only(img_array) ==
    WithAlpha(img_array,
        [p \in DOMAIN img_array.px |->
            LET px == img_array.px[p]
            IN  \* (luminosity > white_threshold_lum) & (saturation < white_threshold_sat)
                \* & visible_mask & border_mask
                IF /\ px.a > 0
                   /\ Luminosity(px) > 245 * 1000
                   /\ SaturationBelow(px, 5, 100)
                   /\ InBorderMask(p, img_array.h, img_array.w)
                THEN 0 ELSE px.a])

\* the package filter writing a binary alpha instead of clearing the whites
core_remove_background_whites_only_binary(img_array) ==
    WithAlpha(img_array,
        [p \in DOMAIN img_array.px |->
            LET px == img_array.px[p]
            IN  IF px.r > 240 /\ px.g > 240 /\ px.b > 240 /\ px.a < 200 THEN 0 ELSE 255])

\* bgremover_package/core.py: pixels with all of R, G, B above 240 and alpha below 200
\* become transparent
core_remove_background_whites_only(img_array) ==
    WithAlpha(img_array,
        [p \in DOMAIN img_array.px |->
            LET px == img_array.px[p]
            IN  \* white_mask = np.all(rgb > 240, axis=2); white_mask & (result[:,:,3] < 200)
                IF px.r > 240 /\ px.g > 240 /\ px.b > 240 /\ px.a < 200 THEN 0 ELSE px.a])

\* np.percentile(valid_luminosity, 95) times 100, for the luminosities lum[p] of the
\* pixels p of `visible` (not empty): linear interpolation between the two order
\* statistics around index 0.95 * (n - 1)
Percentile95(lum, visible) ==
    LET n == Cardinality(visible)
        lo == (95 * (n - 1)) \div 100
        hi == IF lo + 1 <= n - 1 THEN lo + 1 ELSE n - 1
        frac == (95 * (n - 1)) % 100
        vals == { lum[p] : p \in visible }
        \* the k-th entry (from 0) of the sorted luminosities
        Kth(k) == CHOOSE v \in vals :
                     /\ Cardinality({ p \in visible : lum[p] < v }) <= k
                     /\ k < Cardinality({ p \in visible : lum[p] <= v })
    IN  100 * Kth(lo) + frac * (Kth(hi) - Kth(lo))

\* the filter with the fixed cutoff 240 alone, without the percentile
remove_white_pixels_fixed(img_array) ==
    WithAlpha(img_array,
        [p \in DOMAIN img_array.px |->
            IF img_array.px[p].a > 0 /\ Luminosity(img_array.px[p]) > 240 * 1000
            THEN 0 ELSE img_array.px[p].a])

\* bg_remover.py: visible pixels brighter than max(95th percentile, 240) become transparent
remove_white_pixels(img_array) ==
    LET visible_mask == Visible(img_array)
        luminosity == [p \in DOMAIN img_array.px |-> Luminosity(img_array.px[p])]
        percentile == Percentile95(luminosity, visible_mask)
        \* threshold = max(threshold, 240), times 100 000
        threshold == IF percentile > 240 * 1000 * 100 THEN percentile ELSE 240 * 1000 * 100
    IN  IF visible_mask = {} THEN img_array
        ELSE WithAlpha(img_array,
                [p \in DOMAIN img_array.px |->
                    IF p \in visible_mask /\ 100 * luminosity[p] > threshold
                    THEN 0 ELSE img_array.px[p].a])

\* the eliminate-pipeline filter testing the luminosity alone
remove_white_pixels_advanced_lum(img_array) ==
    WithAlpha(img_array,
        [p \in DOMAIN img_array.px |->
            LET px == img_array.px[p]
            IN  IF px.a > 0 /\ Luminosity(px) > 235 * 1000 THEN 0 ELSE px.a])

\* archive/bg_remover_clean.py: visible pixels of luminosity > 235 and saturation < 0.15
\* become transparent
remove_white_pixels_advanced(img_array) ==
    WithAlpha(img_array,
        [p \in DOMAIN img_array.px |->
            LET px == img_array.px[p]
            IN  \* (luminosity > white_threshold_lum) & (saturation < white_threshold_sat) & visible_mask
                IF /\ px.a > 0
                   /\ Luminosity(px) > 235 * 1000
                   /\ SaturationBelow(px, 15, 100)
                THEN 0 ELSE px.a])

(***************************************************************************)
(* The white filters on their own                                          *)
(***************************************************************************)
\* side of the square images the filters are run on: the smallest with a pixel
\* outside the border band
BandDim == 2 * border_width + 1

\* the one pixel outside the band and a neighbour inside it
Centre == <<border_width, border_width>>
InBand == <<border_width - 1, border_width>>

White == <<255, 255, 255>>
Black == <<0, 0, 0>>

\* pure white and black, fully saturated red, a grey at the luminosity cutoff 245,
\* a pale colour at the saturation cutoff 0.15 (36/240), and two pale colours on
\* either side of the saturation cutoff 0.05 (13/255 and 12/255)
WhiteColours ==
    {White, Black, Red, <<245, 245, 245>>, <<240, 240, 204>>,
     <<255, 255, 242>>, <<255, 255, 243>>}

InitWhite ==
    /\ img \in ProbeImages(BandDim, BandDim, {Centre, InBand}, WhiteColours, SmoothAlphas)
    /\ orig = img
    /\ thr = 50
    /\ thrE = 150
    /\ NoRun

Do_remove_background_whites_only ==
    /\ Idle
    /\ img' = remove_background_whites_only(img)
    /\ Finish("remove_background_whites_only")

Do_core_remove_background_whites_only ==
    /\ Idle
    /\ img' = core_remove_background_whites_only(img)
    /\ Finish("core_remove_background_whites_only")

Do_remove_white_pixels ==
    /\ Idle
    /\ img' = remove_white_pixels(img)
    /\ Finish("remove_white_pixels")

Do_remove_white_pixels_advanced ==
    /\ Idle
    /\ img' = remove_white_pixels_advanced(img)
    /\ Finish("remove_white_pixels_advanced")

NextWhite ==
    \/ Do_remove_background_whites_only
    \/ Do_core_remove_background_whites_only
    \/ Do_remove_white_pixels
    \/ Do_remove_white_pixels_advanced

SpecWhite == InitWhite /\ [][NextWhite]_vars

WhiteFilters ==
    {"remove_background_whites_only", "core_remove_background_whites_only",
     "remove_white_pixels"}

\* C8: the white filters of bgremover.py, core.py and bg_remover.py leave every pixel
\* whose opacity is 0 at opacity 0, whatever its colour.
C8_TransparentStaysTransparent ==
    prog \in WhiteFilters =>
        \A p \in DOMAIN img.px : orig.px[p].a = 0 => img.px[p].a = 0

\* the package filter ran on a transparent pure-white pixel and cleared a visible one
C8_Witness ==
    /\ prog = "core_remove_background_whites_only"
    /\ orig.px[Centre] = Pixel(255, 255, 255, 0)
    /\ orig.px[InBand].a = 120
    /\ img.px[InBand].a = 0

\* the conditions of the claim, stated on the input pixel
IsVisible(px) == px.a > 0
LumExceeds(px, cutoff) == 299 * px.r + 587 * px.g + 114 * px.b > 1000 * cutoff
SatProxyBelow(px, hundredths) ==
    LET mx == Max3(px.r, px.g, px.b)
        mn == Min3(px.r, px.g, px.b)
    IN  IF mx = 0 THEN TRUE ELSE 100 * (mx - mn) < hundredths * mx
\* within 10 pixels of an edge of the image
InBorderBand(p, arr) ==
    \/ p[1] <= 9 \/ arr.h - 1 - p[1] <= 9
    \/ p[2] <= 9 \/ arr.w - 1 - p[2] <= 9

\* the cutoffs of the filter that ran: luminance, saturation in hundredths
LumCutoff == IF prog = "remove_white_pixels_advanced" THEN 235 ELSE 245
SatCutoff == IF prog = "remove_white_pixels_advanced" THEN 15 ELSE 5

Removable(p) ==
    /\ IsVisible(orig.px[p])
    /\ LumExceeds(orig.px[p], LumCutoff)
    /\ SatProxyBelow(orig.px[p], SatCutoff)
    /\ prog = "remove_background_whites_only" => InBorderBand(p, orig)

\* C9: remove_white_pixels_advanced and remove_background_whites_only set a pixel to
\* opacity 0 if and only if it is visible, its luminance exceeds the cutoff, its
\* saturation proxy is below the cutoff and (strict variant) it lies in the
\* 10-pixel border band; every other pixel keeps its opacity, so a bright pixel
\* with saturation at or above the cutoff and a pure red pixel are never removed.
C9_RemovedIffAllConditions ==
    prog \in {"remove_white_pixels_advanced", "remove_background_whites_only"} =>
        \A p \in DOMAIN img.px :
            /\ Removable(p) => img.px[p].a = 0
            /\ ~Removable(p) => img.px[p].a = orig.px[p].a
            /\ (~SatProxyBelow(orig.px[p], SatCutoff) \/ RGB(orig)[p] = Red)
                   => img.px[p].a = orig.px[p].a

\* the strict filter removed a white pixel inside the band and kept the same white
\* pixel outside it
C9_Witness ==
    /\ prog = "remove_background_whites_only"
    /\ orig.px[Centre] = Pixel(255, 255, 255, 255)
    /\ orig.px[InBand] = Pixel(255, 255, 255, 255)
    /\ img.px[Centre].a = 255
    /\ img.px[InBand].a = 0

(***************************************************************************)
(* Element connection of the two pipelines                                 *)
(***************************************************************************)

\* bgremover.py: with two or more components the alpha plane is multiplied by the
\* twice dilated 0/1 plane of the visible pixels; with at most one the input is
\* returned
connect_character_elements(img_array) ==
    LET binary == Visible(img_array)
        dom == DOMAIN img_array.px
        num_labels == Cardinality(connectedComponents(binary, img_array.w, "raster")) + 1
        dilated == Dilate(Dilate(binary, Ellipse3, dom), Ellipse5, dom)
    IN  IF num_labels <= 2 THEN img_array ELSE MaskAlpha(img_array, dilated)

SetMax(S) == CHOOSE m \in S : \A x \in S : x <= m

SetMin(S) == CHOOSE m \in S : \A x \in S : m <= x

\* the values of a plane under the kernel anchored at p, inside the image
UnderKernel(plane, kernel, p) ==
    { plane[Shift(p, d)] : d \in { e \in kernel : Shift(p, e) \in DOMAIN plane } }

\* cv2.morphologyEx(alpha, cv2.MORPH_CLOSE, kernel) of a grey plane: dilation
\* (maximum under the kernel) followed by erosion (minimum under the kernel)
MorphClose(plane, kernel) ==
    LET dilated == [p \in DOMAIN plane |-> SetMax(UnderKernel(plane, kernel, p))]
    IN  [p \in DOMAIN plane |-> SetMin(UnderKernel(dilated, kernel, p))]

\* the closing written back everywhere, without the mask alpha > 0
core_connect_character_elements_everywhere(img_array) ==
    WithAlpha(img_array, MorphClose(Alpha(img_array), Ellipse3))

\* core.py: the closed alpha is written back where alpha was above 0
core_connect_character_elements(img_array) ==
    LET alpha == Alpha(img_array)
        alpha_closed == MorphClose(alpha, Ellipse3)
    IN  WithAlpha(img_array,
            [p \in DOMAIN alpha |-> IF alpha[p] > 0 THEN alpha_closed[p] ELSE alpha[p]])

\* analyze_alpha_distribution and _analyze_alpha_distribution: statistics are
\* printed, the array is returned as received
analyze_alpha_distribution(img_array) == img_array

(***************************************************************************)
(* The two processing functions, statement by statement                    *)
(***************************************************************************)

Script == "remove_background_preserve_elements"
Core == "remove_background"
Clean == "remove_background_clean"
Pipelines == {Script, Core}
AllPipelines == Pipelines \cup {Clean}

\* the order with the save ahead of the refinement stages
remove_background_preserve_elements_savefirst ==
    <<"exists", "session", "segment", "save", "analyze", "fix", "connect", "whites",
      "smooth", "return">>

\* bgremover.py: the statements of remove_background_preserve_elements in order
remove_background_preserve_elements ==
    <<"exists", "session", "segment", "analyze", "fix", "connect", "whites", "smooth",
      "save", "return">>

\* the order with the reconciler ahead of the resolver
preserve_elements_pipeline_connectfirst == <<"analyze", "connect", "fix", "whites">>

\* core.py: the stages of _preserve_elements_pipeline in order
preserve_elements_pipeline == <<"analyze", "fix", "connect", "whites">>

\* core.py: the statements of BackgroundRemover.remove_background in order
remove_background(preserve_elements, with_smooth_edges) ==
    <<"exists", "segment">>
        \o (IF preserve_elements THEN preserve_elements_pipeline ELSE <<>>)
        \o (IF with_smooth_edges THEN <<"smooth">> ELSE <<>>)
        \o <<"save", "return">>

\* archive/bg_remover_clean.py: the statements of remove_background_clean in order
remove_background_clean ==
    <<"exists", "session", "segment", "fix", "connect", "whites", "smooth", "save",
      "return">>

Steps ==
    IF prog = Script
    THEN remove_background_preserve_elements
    ELSE IF prog = Clean
    THEN remove_background_clean
    ELSE remove_background(flags.preserve, flags.smooth)

\* the statement after statement at
After(steps, at) ==
    LET i == CHOOSE j \in 1 .. Len(steps) : steps[j] = at
    IN  IF i < Len(steps) THEN steps[i + 1] ELSE "done"

PipeW == 3

PipeThr == {0, 50, 150}

Old == [status |-> "old", data |-> NoImage]

\* a call of one of the two functions: the input file may be missing, the output
\* path may hold an earlier file, orig is what the segmentation call will return
InitPipe ==
    /\ prog \in AllPipelines
    /\ pc = "exists"
    /\ exists \in BOOLEAN
    /\ orig \in (IF exists THEN MaskImages(1, PipeW, {White, Red}, SmoothAlphas)
                 ELSE {NoImage})
    /\ img = NoImage
    /\ thr \in (IF prog = Clean THEN {50} ELSE PipeThr)
    /\ thrE \in (IF prog = Clean THEN PipeThr ELSE {150})
    /\ flags \in (IF prog = Core THEN [preserve : BOOLEAN, smooth : BOOLEAN]
                  ELSE {AllStages})
    /\ raised = "none"
    /\ ret = "none"
    /\ outfile \in {Absent, Old}
    /\ NoAux

At(name, at) == prog = name /\ pc = at

Advance ==
    /\ pc' = After(Steps, pc)
    /\ UNCHANGED <<orig, thr, thrE, flags, prog, raised, ret, exists, outfile, aux>>

\* if not os.path.exists(input_path): return False
CheckExists ==
    /\ prog \in AllPipelines
    /\ pc = "exists"
    /\ IF exists
       THEN /\ pc' = After(Steps, pc)
            /\ ret' = ret
       ELSE /\ pc' = "done"
            /\ ret' = "False"
    /\ UNCHANGED <<img, orig, thr, thrE, flags, prog, raised, exists, outfile, aux>>

\* session = new_session('isnet-general-use')
NewSession ==
    /\ prog \in {Script, Clean}
    /\ pc = "session"
    /\ img' = img
    /\ Advance

\* read the input, remove(input_data, session), decode the result into result_array
Segment ==
    /\ prog \in AllPipelines
    /\ pc = "segment"
    /\ img' = orig
    /\ Advance

Script_analyze_alpha_distribution ==
    /\ At(Script, "analyze")
    /\ img' = analyze_alpha_distribution(img)
    /\ Advance

Script_fix_partial_transparencies ==
    /\ At(Script, "fix")
    /\ img' = fix_partial_transparencies(img, thr)
    /\ Advance

Script_connect_character_elements ==
    /\ At(Script, "connect")
    /\ img' = connect_character_elements(img)
    /\ Advance

Script_remove_background_whites_only ==
    /\ At(Script, "whites")
    /\ img' = remove_background_whites_only(img)
    /\ Advance

Script_smooth_edges_preserve ==
    /\ At(Script, "smooth")
    /\ img' = smooth_edges_preserve(img)
    /\ Advance

Core_analyze_alpha_distribution ==
    /\ At(Core, "analyze")
    /\ img' = analyze_alpha_distribution(img)
    /\ Advance

Core_fix_partial_transparencies ==
    /\ At(Core, "fix")
    /\ img' = core_fix_partial_transparencies(img, thr)
    /\ Advance

Core_connect_character_elements ==
    /\ At(Core, "connect")
    /\ img' = core_connect_character_elements(img)
    /\ Advance

Core_remove_background_whites_only ==
    /\ At(Core, "whites")
    /\ img' = core_remove_background_whites_only(img)
    /\ Advance

Core_smooth_edges_conservative ==
    /\ At(Core, "smooth")
    /\ img' = core_smooth_edges_conservative(img)
    /\ Advance

Clean_clean_partial_transparencies ==
    /\ At(Clean, "fix")
    /\ img' = clean_partial_transparencies(img, thrE)
    /\ Advance

Clean_connect_main_components ==
    /\ At(Clean, "connect")
    /\ \E scan \in ScanOrders : img' = connect_main_components(img, scan)
    /\ Advance

Clean_remove_white_pixels_advanced ==
    /\ At(Clean, "whites")
    /\ img' = remove_white_pixels_advanced(img)
    /\ Advance

Clean_smooth_edges_conservative ==
    /\ At(Clean, "smooth")
    /\ img' = smooth_edges_conservative(img)
    /\ Advance

\* Image.fromarray(result_array).save(output_path, format='PNG')
Save ==
    /\ prog \in AllPipelines
    /\ pc = "save"
    /\ outfile' = [status |-> "written", data |-> img]
    /\ pc' = After(Steps, pc)
    /\ UNCHANGED <<img, orig, thr, thrE, flags, prog, raised, ret, exists, aux>>

\* return True
ReturnTrue ==
    /\ prog \in AllPipelines
    /\ pc = "return"
    /\ ret' = "True"
    /\ pc' = "done"
    /\ UNCHANGED <<img, orig, thr, thrE, flags, prog, raised, exists, outfile, aux>>

\* the statements that call into a library and may raise
Raising == {"session", "segment", "analyze", "fix", "connect", "whites", "smooth", "save"}

\* except Exception: report and return False; the locals of the call are gone
Except ==
    /\ prog \in AllPipelines
    /\ pc \in Raising
    /\ raised' = pc
    /\ ret' = "False"
    /\ pc' = "done"
    /\ img' = NoImage
    /\ UNCHANGED <<orig, thr, thrE, flags, prog, exists, outfile, aux>>

NextPipe ==
    \/ CheckExists
    \/ NewSession
    \/ Segment
    \/ Script_analyze_alpha_distribution
    \/ Script_fix_partial_transparencies
    \/ Script_connect_character_elements
    \/ Script_remove_background_whites_only
    \/ Script_smooth_edges_preserve
    \/ Core_analyze_alpha_distribution
    \/ Core_fix_partial_transparencies
    \/ Core_connect_character_elements
    \/ Core_remove_background_whites_only
    \/ Core_smooth_edges_conservative
    \/ Clean_clean_partial_transparencies
    \/ Clean_connect_main_components
    \/ Clean_remove_white_pixels_advanced
    \/ Clean_smooth_edges_conservative
    \/ Save
    \/ ReturnTrue
    \/ Except

SpecPipe == InitPipe /\ [][NextPipe]_vars

Failed == ~exists \/ raised # "none"

\* C1: a call whose input file is missing, or in which the session, the
\* segmentation call or a refinement stage raised, returns False and leaves the
\* output path as it was (neither created nor modified); the output file changes
\* only in the save statement, which is the last statement before "return True"
\* of a run in which nothing raised.
C1_OutputOnlyOnSuccess ==
    /\ [](prog \in Pipelines =>
            /\ (pc = "done" /\ Failed => ret = "False")
            /\ (ret = "False" => outfile \in {Absent, Old})
            /\ (outfile.status = "written" =>
                    /\ ~Failed
                    /\ pc \in {"return", "done"}
                    /\ (pc = "done" => ret = "True")))
    /\ [][outfile' # outfile =>
            /\ pc = "save"
            /\ pc' = "return"
            /\ outfile'.data = img]_vars

C1_Witness ==
    /\ prog \in Pipelines
    /\ pc = "done"
    /\ raised = "smooth"
    /\ ret = "False"
    /\ outfile = Old

\* C10: in both pipelines the red, green and blue planes of the array are, after
\* every stage, those of the array the segmentation call returned, and the saved
\* file has those planes too; only alpha differs.
C10_StagesKeepColour ==
    prog \in Pipelines =>
        /\ (img.h > 0 => RGB(img) = RGB(orig))
        /\ (outfile.status = "written" => RGB(outfile.data) = RGB(orig))

C10_Witness ==
    /\ prog \in Pipelines
    /\ ret = "True"
    /\ flags = AllStages
    /\ outfile.status = "written"
    /\ \E p \in DOMAIN orig.px :
            /\ orig.px[p].a = 255
            /\ RGB(orig)[p] = White
            /\ outfile.data.px[p].a = 0
    /\ \E p \in DOMAIN orig.px : orig.px[p].a = 120 /\ outfile.data.px[p].a = 255

\* the mask returned by the segmentation call is perfect: 255 on one connected
\* region of saturated colour, 0 elsewhere
PerfectMask(arr) ==
    /\ arr.h > 0
    /\ Visible(arr) # {}
    /\ \A p \in DOMAIN arr.px : arr.px[p].a \in {0, 255}
    /\ \A p \in Visible(arr) : RGB(arr)[p] = Red
    /\ \A p \in Visible(arr) : Grow({p}, Visible(arr)) = Visible(arr)
    /\ 100 * Cardinality(Visible(arr)) >= arr.h * arr.w

\* the refinement stages of the run are over
Refined == pc \in {"save", "return"} \/ (pc = "done" /\ ret = "True")

\* C11: given a perfect binary mask (255 on one connected region of saturated,
\* non-white colour covering at least 1% of the image, 0 elsewhere), the refinement
\* stages of remove_background_preserve_elements and of remove_background_clean
\* return it unchanged: subject pixels end at 255, all others at 0.
C11_PerfectMaskUnchanged ==
    prog \in {Script, Clean} /\ PerfectMask(orig) /\ Refined => Alpha(img) = Alpha(orig)

(***************************************************************************)
(* The eliminate pipeline applied to its own output                        *)
(***************************************************************************)

\* archive/bg_remover_clean.py: the four refinement stages of remove_background_clean
clean_refinement(img_array, threshold, scan) ==
    smooth_edges_conservative(
        remove_white_pixels_advanced(
            connect_main_components(
                clean_partial_transparencies(img_array, threshold), scan)))

TwiceProbes == {<<0, 0>>, <<0, 1>>, <<5, 5>>, <<5, 6>>}

TwiceThr == {0, 100}

InitTwice ==
    /\ img \in ProbeImages(CompDim, CompDim, TwiceProbes, {White, Red}, SmoothAlphas)
    /\ orig = img
    /\ thr = 50
    /\ thrE \in TwiceThr
    /\ NoRun

\* the first pass; its output is what is written
Do_clean_refinement ==
    /\ Idle
    /\ \E scan \in ScanOrders : img' = clean_refinement(img, thrE, scan)
    /\ outfile' = [status |-> "written", data |-> img']
    /\ prog' = "clean_refinement"
    /\ pc' = "once"
    /\ UNCHANGED <<orig, thr, thrE, flags, raised, ret, exists, aux>>

\* the second pass, on the output of the first
Do_clean_refinement_again ==
    /\ prog = "clean_refinement"
    /\ pc = "once"
    /\ \E scan \in ScanOrders : img' = clean_refinement(outfile.data, thrE, scan)
    /\ pc' = "done"
    /\ UNCHANGED <<orig, thr, thrE, flags, prog, raised, ret, exists, outfile, aux>>

NextTwice ==
    \/ Do_clean_refinement
    \/ Do_clean_refinement_again

SpecTwice == InitTwice /\ [][NextTwice]_vars

TwiceDone == prog = "clean_refinement" /\ pc = "done"

\* C12 as stated: applying the four refinement stages of remove_background_clean to
\* their own output, with the same threshold, changes no pixel.
C12_SecondPassChangesNothing == TwiceDone => img = outfile.data

\* what remove_white_pixels_advanced removes when visible
Whitish(px) == Luminosity(px) > 235 * 1000 /\ SaturationBelow(px, 15, 100)

\* C12 amended: the second pass changes no colour and never raises an opacity: every
\* pixel keeps the opacity the first pass gave it or drops from 255 to 0; and when
\* the input holds no white pixel (luminosity > 235, saturation < 0.15) the second
\* pass changes no pixel at all.
C12_SecondPassOnlyClears ==
    TwiceDone =>
        /\ RGB(img) = RGB(outfile.data)
        /\ \A p \in DOMAIN img.px :
                /\ outfile.data.px[p].a \in {0, 255}
                /\ img.px[p].a \in {outfile.data.px[p].a, 0}
        /\ ((\A p \in DOMAIN orig.px : ~Whitish(orig.px[p])) => img = outfile.data)

C12_Witness ==
    /\ TwiceDone
    /\ \A p \in DOMAIN orig.px : ~Whitish(orig.px[p])
    /\ \E p \in DOMAIN orig.px : orig.px[p].a = 255 /\ outfile.data.px[p].a = 0
    /\ \E p \in DOMAIN orig.px : orig.px[p].a = 120 /\ outfile.data.px[p].a = 255
    /\ img = outfile.data

(***************************************************************************)
(* Multi-model ensembles                                                   *)
(***************************************************************************)

\* the alpha planes of the members that did not raise, in model order
ReturnedMasks(outcomes) ==
    LET ok == SelectSeq(outcomes, LAMBDA m : m.ok)
    IN  [i \in 1 .. Len(ok) |-> ok[i].mask]

\* the result of an ensemble: it raised, or it returned a plane
Raised == [raised |-> TRUE, mask |-> <<>>]
Returned(mask) == [raised |-> FALSE, mask |-> mask]

\* advanced_avatar_removal.py: members that raise are skipped; no mask left raises;
\* one mask is returned as it is; several are blended as 0.7 * minimum + 0.3 * maximum
\* and cast to uint8 (for the opacities used here the float64 sum truncates to the
\* integer quotient)
multi_model_consensus(outcomes) ==
    LET masks == ReturnedMasks(outcomes)
    IN  IF masks = <<>> THEN Raised
        ELSE IF Len(masks) = 1 THEN Returned(masks[1])
        ELSE Returned([p \in DOMAIN masks[1] |->
                LET here == { masks[i][p] : i \in 1 .. Len(masks) }
                IN  (7 * SetMin(here) + 3 * SetMax(here)) \div 10])

\* (mask * 255 / mask.max()).astype(np.uint8): the product is taken in uint8
Normalise(mask) ==
    LET top == SetMax({ mask[p] : p \in DOMAIN mask })
    IN  [p \in DOMAIN mask |-> ((mask[p] * 255) % 256) \div top]

\* improved_segmentation.py: members that raise are skipped, and so are members
\* whose mask is zero everywhere; no mask left raises; the others are normalised,
\* cut at 100 and OR-ed
improved_model_segmentation(outcomes) ==
    LET returned == ReturnedMasks(outcomes)
        kept == SelectSeq(returned, LAMBDA m : \E p \in DOMAIN m : m[p] > 0)
        masks == [i \in 1 .. Len(kept) |-> Normalise(kept[i])]
    IN  IF masks = <<>> THEN Raised
        ELSE Returned([p \in DOMAIN masks[1] |->
                IF \E i \in 1 .. Len(masks) : masks[i][p] > 100 THEN 255 ELSE 0])

\* number of models of an ensemble
NumModels == 3

EnsW == 2

EnsAlphas == {0, 1, 120, 255}

NoMask == [p \in Pixels(1, EnsW) |-> 0]

\* what a model does when called: it raises, or it returns a mask
MemberOutcomes ==
    {[ok |-> FALSE, mask |-> NoMask]}
        \cup { [ok |-> TRUE, mask |-> m] : m \in [Pixels(1, EnsW) -> EnsAlphas] }

InitEnsemble ==
    /\ img = NoImage
    /\ orig = NoImage
    /\ thr = 50
    /\ thrE = 150
    /\ prog = "none"
    /\ pc = "input"
    /\ flags = AllStages
    /\ raised = "none"
    /\ ret = "none"
    /\ exists = TRUE
    /\ outfile = Absent
    /\ members \in [1 .. NumModels -> MemberOutcomes]
    /\ exitcode = -1
    /\ batch = <<>>
    /\ canny = {}

\* the ensemble returns its mask or raises
Finish_ensemble(name, result) ==
    /\ img' = (IF result.raised THEN NoImage
               ELSE [h |-> 1, w |-> EnsW, px |-> result.mask])
    /\ raised' = (IF result.raised THEN name ELSE "none")
    /\ prog' = name
    /\ pc' = "done"
    /\ UNCHANGED <<orig, thr, thrE, flags, ret, exists, outfile, aux>>

Do_multi_model_consensus ==
    /\ Idle
    /\ Finish_ensemble("multi_model_consensus", multi_model_consensus(members))

Do_improved_model_segmentation ==
    /\ Idle
    /\ Finish_ensemble("improved_model_segmentation", improved_model_segmentation(members))

NextEnsemble ==
    \/ Do_multi_model_consensus
    \/ Do_improved_model_segmentation

SpecEnsemble == InitEnsemble /\ [][NextEnsemble]_vars

Ensembles == {"multi_model_consensus", "improved_model_segmentation"}

\* C13: an ensemble raises only if every member raised: when at least one member
\* returned a mask without error the ensemble returns a mask, and what it returns
\* is the combination of the masks of the members that did not raise.
C13_RaisesOnlyIfAllFailed ==
    prog \in Ensembles =>
        /\ (raised # "none" <=> \A i \in 1 .. NumModels : ~members[i].ok)
        /\ (raised = "none" =>
                LET rest == SelectSeq(members, LAMBDA m : m.ok)
                IN  img.px = (IF prog = "multi_model_consensus"
                              THEN multi_model_consensus(rest).mask
                              ELSE improved_model_segmentation(rest).mask))

(***************************************************************************)
(* Script entry points                                                     *)
(***************************************************************************)

BgremoverMain == "bgremover.main"
FinalMain == "bg_remove_final.main"
AdvancedMain == "advanced_avatar_removal.main"
Mains == {BgremoverMain, FinalMain, AdvancedMain}

\* a script is started: the input file may be missing, the output path may hold an
\* earlier file
InitMain ==
    /\ prog \in Mains
    /\ pc = "start"
    /\ img = NoImage
    /\ orig = NoImage
    /\ thr \in PipeThr
    /\ thrE = 150
    /\ flags = AllStages
    /\ raised = "none"
    /\ ret = "none"
    /\ exists \in BOOLEAN
    /\ outfile \in {Absent, Old}
    /\ NoAux

\* the process ends with the given status at the given statement
Exit(status, at) ==
    /\ exitcode' = status
    /\ pc' = at
    /\ UNCHANGED <<img, orig, thr, thrE, flags, prog, raised, ret, exists, outfile,
                   members, batch, canny>>

\* the processing function returns: False without output when the input is missing or
\* something raised, True after the output was saved
Process ==
    /\ \E ok \in (IF exists THEN BOOLEAN ELSE {FALSE}) :
          /\ ret' = (IF ok THEN "True" ELSE "False")
          /\ outfile' = (IF ok THEN [status |-> "written", data |-> orig] ELSE outfile)
    /\ pc' = "returned"
    /\ UNCHANGED <<img, orig, thr, thrE, flags, prog, raised, exists, aux>>

\* the processing function returns False at once
Rejected ==
    /\ ret' = "False"
    /\ pc' = "rejected"
    /\ UNCHANGED <<img, orig, thr, thrE, flags, prog, raised, exists, outfile, aux>>

\* bgremover.py: if len(sys.argv) < 3: usage; sys.exit(1)
bgremover_main_usage ==
    /\ At(BgremoverMain, "start")
    /\ Exit(1, "usage")

\* bgremover.py: success = remove_background_preserve_elements(...)
bgremover_main_call ==
    /\ At(BgremoverMain, "start")
    /\ Process

\* bgremover.py: if success: ... else: sys.exit(1)
bgremover_main_exit ==
    /\ At(BgremoverMain, "returned")
    /\ Exit(IF ret = "True" THEN 0 ELSE 1, "end")

\* bg_remove_final.py: if len(sys.argv) < 3: usage; return
final_main_usage ==
    /\ At(FinalMain, "start")
    /\ Exit(0, "usage")

\* bg_remove_final.py: remove_bg_ultimate(input_image, output_image, mode) with a
\* known mode
final_main_call ==
    /\ At(FinalMain, "start")
    /\ Process

\* bg_remove_final.py: remove_bg_ultimate with a mode that is not in mode_configs
final_main_unknown_mode ==
    /\ At(FinalMain, "start")
    /\ Rejected

\* bg_remove_final.py: main falls off its end after the call
final_main_exit ==
    /\ prog = FinalMain
    /\ pc \in {"returned", "rejected"}
    /\ Exit(0, "end")

\* advanced_avatar_removal.py: if len(sys.argv) < 3: usage; return
advanced_main_usage ==
    /\ At(AdvancedMain, "start")
    /\ Exit(0, "usage")

\* advanced_avatar_removal.py: if preset_name not in presets: ...; return
advanced_main_unknown_preset ==
    /\ At(AdvancedMain, "start")
    /\ Exit(0, "unknown preset")

\* advanced_avatar_removal.py: success = advanced_avatar_removal(...)
advanced_main_call ==
    /\ At(AdvancedMain, "start")
    /\ Process

\* advanced_avatar_removal.py: if success: print ... else: print ...
advanced_main_exit ==
    /\ At(AdvancedMain, "returned")
    /\ Exit(0, "end")

NextMain ==
    \/ bgremover_main_usage
    \/ bgremover_main_call
    \/ bgremover_main_exit
    \/ final_main_usage
    \/ final_main_call
    \/ final_main_unknown_mode
    \/ final_main_exit
    \/ advanced_main_usage
    \/ advanced_main_unknown_preset
    \/ advanced_main_call
    \/ advanced_main_exit

SpecMain == InitMain /\ [][NextMain]_vars

\* C14: every script entry point ends with a non-zero exit status whenever its
\* processing function returned False, and ends with status 0 only when the output
\* was written.
C14_FailureReported ==
    prog \in Mains /\ exitcode >= 0 =>
        /\ (ret = "False" => exitcode # 0)
        /\ (exitcode = 0 => outfile.status = "written")

(***************************************************************************)
(* The package command line, one image                                     *)
(***************************************************************************)

CliW == 2

\* values of --threshold (type=int, no range check): inside and outside 0..255
CliThr == {-1, 0, 50, 255, 256, 300}

InitCli ==
    /\ prog = Core
    /\ pc = "process_single"
    /\ exists \in BOOLEAN
    /\ orig \in (IF exists THEN MaskImages(1, CliW, {White, Red}, SmoothAlphas)
                 ELSE {NoImage})
    /\ img = NoImage
    /\ thr \in CliThr
    /\ thrE = 150
    /\ flags \in [preserve : BOOLEAN, smooth : BOOLEAN]
    /\ raised = "none"
    /\ ret = "none"
    /\ outfile \in {Absent, Old}
    /\ NoAux

\* cli.py process_single: validate_image, ensure_output_dir and BackgroundRemover(...)
\* each end the command with status 1 when they fail; otherwise remove_background is
\* called with min_alpha_threshold=args.threshold
process_single_prepare ==
    /\ At(Core, "process_single")
    /\ \E ok \in (IF exists THEN BOOLEAN ELSE {FALSE}) :
          IF ok
          THEN /\ pc' = "exists"
               /\ exitcode' = exitcode
          ELSE /\ pc' = "exited"
               /\ exitcode' = 1
    /\ UNCHANGED <<img, orig, thr, thrE, flags, prog, raised, ret, exists, outfile,
                   members, batch, canny>>

\* cli.py process_single: return 0 if success else 1
process_single_return ==
    /\ At(Core, "done")
    /\ exitcode' = (IF ret = "True" THEN 0 ELSE 1)
    /\ pc' = "exited"
    /\ UNCHANGED <<img, orig, thr, thrE, flags, prog, raised, ret, exists, outfile,
                   members, batch, canny>>

NextCli ==
    \/ process_single_prepare
    \/ CheckExists
    \/ Segment
    \/ Core_analyze_alpha_distribution
    \/ Core_fix_partial_transparencies
    \/ Core_connect_character_elements
    \/ Core_remove_background_whites_only
    \/ Core_smooth_edges_conservative
    \/ Save
    \/ ReturnTrue
    \/ Except
    \/ process_single_return

SpecCli == InitCli /\ [][NextCli]_vars

\* C15: with a threshold outside 0..255 the package command line and
\* BackgroundRemover.remove_background fail (non-zero status, False) and write no
\* output file.
C15_InvalidThresholdRejected ==
    prog = Core /\ thr \notin 0 .. 255 =>
        /\ ret # "True"
        /\ exitcode \in {-1, 1}
        /\ outfile.status # "written"

(***************************************************************************)
(* Batch processing                                                        *)
(***************************************************************************)

\* what a directory entry is: a sub-directory, a file that validate_image rejects,
\* or an image for which remove_background returns True, returns False or raises
EntryKinds == {"dir", "invalid", "true", "false", "raise"}

\* the loop body without its try/except: a call that raises leaves no entry
batch_entry_noexcept(filename, kind) ==
    IF kind \in {"dir", "raise"} THEN <<>>
    ELSE <<[input_file |-> filename, success |-> (kind = "true")]>>

\* utils.py batch_process_images, one iteration: what the loop body appends to
\* results for a directory entry
batch_entry(filename, kind) ==
    IF kind = "dir" THEN <<>>                       \* not os.path.isfile: continue
    ELSE IF kind = "invalid"                        \* validate_image failed
    THEN <<[input_file |-> filename, success |-> FALSE]>>
    ELSE IF kind = "raise"                          \* except Exception
    THEN <<[input_file |-> filename, success |-> FALSE]>>
    ELSE <<[input_file |-> filename, success |-> (kind = "true")]>>

BatchLen == 3

\* os.listdir(input_dir): distinct names (here the positions), each of some kind
Listings ==
    UNION { [1 .. n -> EntryKinds] : n \in 0 .. BatchLen }

InitBatch ==
    /\ prog = "batch_process_images"
    /\ pc = "start"
    /\ img = NoImage
    /\ orig = NoImage
    /\ thr = 50
    /\ thrE = 150
    /\ flags = AllStages
    /\ raised = "none"
    /\ ret = "none"
    /\ exists \in BOOLEAN
    /\ outfile = Absent
    /\ members = <<>>
    /\ exitcode = -1
    /\ canny = {}
    /\ \E listing \in (IF exists THEN Listings ELSE {<<>>}) :
          batch = [files |-> listing, i |-> 1, results |-> <<>>, running |-> 0]

BatchStep(at) ==
    /\ pc' = at
    /\ UNCHANGED <<img, orig, thr, thrE, flags, prog, raised, ret, exists, outfile,
                   members, exitcode, canny>>

\* if not os.path.exists(input_dir): return results; ensure_output_dir(output_dir)
batch_start ==
    /\ At("batch_process_images", "start")
    /\ batch' = batch
    /\ BatchStep(IF exists THEN "loop" ELSE "done")

InLoop(kinds) ==
    /\ At("batch_process_images", "loop")
    /\ batch.i <= Len(batch.files)
    /\ batch.files[batch.i] \in kinds

NextFile ==
    [batch EXCEPT !.i = @ + 1,
                  !.results = @ \o batch_entry(batch.i, batch.files[batch.i]),
                  !.running = 0]

\* if not os.path.isfile(file_path): continue
batch_skip ==
    /\ InLoop({"dir"})
    /\ batch' = NextFile
    /\ BatchStep("loop")

\* validate_image failed: an entry with success False, continue
batch_invalid ==
    /\ InLoop({"invalid"})
    /\ batch' = NextFile
    /\ BatchStep("loop")

\* remover_instance.remove_background(file_path, output_path, **kwargs) is entered
batch_call ==
    /\ InLoop({"true", "false", "raise"})
    /\ batch' = [batch EXCEPT !.running = @ + 1]
    /\ BatchStep("call")

\* the call returned or raised: its entry is appended
batch_called ==
    /\ At("batch_process_images", "call")
    /\ batch' = NextFile
    /\ BatchStep("loop")

\* return results
batch_return ==
    /\ At("batch_process_images", "loop")
    /\ batch.i > Len(batch.files)
    /\ batch' = batch
    /\ BatchStep("done")

NextBatch ==
    \/ batch_start
    \/ batch_skip
    \/ batch_invalid
    \/ batch_call
    \/ batch_called
    \/ batch_return

SpecBatch == InitBatch /\ [][NextBatch]_vars

RECURSIVE ExpectedResults(_, _)
\* one entry per regular file among the first n directory entries, in listing order,
\* with success only where remove_background returned True
ExpectedResults(files, n) ==
    IF n = 0 THEN <<>>
    ELSE ExpectedResults(files, n - 1)
            \o (IF files[n] = "dir" THEN <<>>
                ELSE <<[input_file |-> n, success |-> (files[n] = "true")]>>)

\* C16: batch_process_images handles the directory entries one after another, with
\* at most one pipeline run in progress; at every moment results holds exactly one
\* entry per regular file already passed, in listing order (sub-directories give
\* none), with success False for a file that failed validation or whose processing
\* returned False or raised; and the loop goes on to the last entry whatever
\* happened before it.
C16_OneEntryPerFile ==
    prog = "batch_process_images" =>
        /\ batch.running \in {0, 1}
        /\ (batch.running = 1 <=> pc = "call")
        /\ batch.results = ExpectedResults(batch.files, batch.i - 1)
        /\ (pc = "done" /\ exists => batch.i = Len(batch.files) + 1)

C16_Witness ==
    /\ prog = "batch_process_images"
    /\ pc = "done"
    /\ Len(batch.files) = BatchLen
    /\ batch.files[1] = "raise"
    /\ batch.files[2] = "dir"
    /\ batch.files[3] = "true"
    /\ Len(batch.results) = 2
    /\ batch.results[2].success

(***************************************************************************)
(* Stage order                                                             *)
(***************************************************************************)

\* the one order in which the statements of the three functions can follow each other
StageOrder ==
    <<"exists", "session", "segment", "analyze", "fix", "connect", "whites", "smooth",
      "save", "return", "done">>

Position(at) == CHOOSE j \in 1 .. Len(StageOrder) : StageOrder[j] = at

\* a step of a pipeline run goes to a later statement, and to the reconciler only
\* from the resolver
MovesForward ==
    prog \in AllPipelines /\ pc' # pc =>
        /\ Position(pc') > Position(pc)
        /\ (pc' = "connect" => pc = "fix")

\* C17: in every run of the three pipelines the position only moves forward through
\* one fixed order (each stage runs at most once, no stage is retried), the resolver
\* has completed when the component reconciler starts, and the mask the reconciler
\* receives holds only the opacities 0 and 255.
C17_ResolverBeforeReconciler ==
    /\ [](prog \in AllPipelines /\ pc = "connect" =>
            \A p \in DOMAIN img.px : img.px[p].a \in {0, 255})
    /\ [][MovesForward]_vars

C17_Witness ==
    /\ prog \in AllPipelines
    /\ pc = "connect"
    /\ \E p \in DOMAIN orig.px : orig.px[p].a = 120
    /\ \A p \in DOMAIN img.px : img.px[p].a \in {0, 255}

(***************************************************************************)
(* careful_trim.py: trim_white_border_carefully                            *)
(*                                                                         *)
(* orig is ai_result, the array rembg returns (the colours of the input,   *)
(* the opacity of the model); img carries the mask of the current step in  *)
(* its alpha channel; thr is trim_level.                                   *)
(***************************************************************************)

\* np.ones((n, n), np.uint8) with the default anchor (n // 2, n // 2): the offsets
\* at which cv2.erode and cv2.dilate read the source, the same for both
Box(n) == (-(n \div 2) .. (n - 1) - (n \div 2)) \X (-(n \div 2) .. (n - 1) - (n \div 2))

\* cv2.morphologyEx(mask, cv2.MORPH_OPEN, kernel): erode, then dilate
MorphOpenSet(ones, kernel, dom) == Dilate(Erode(ones, kernel, dom), kernel, dom)

\* cv2.morphologyEx(mask, cv2.MORPH_CLOSE, kernel): dilate, then erode, with the
\* same kernel and anchor
MorphCloseSet(ones, kernel, dom) == Erode(Dilate(ones, kernel, dom), kernel, dom)

\* cv2.cvtColor(..., cv2.COLOR_RGB2GRAY) of one 8-bit pixel
Gray(px) == (px.r * 4899 + px.g * 9617 + px.b * 1868 + 8192) \div 16384

\* the mask (0 / 255) as the set of its 255-pixels, and back
MaskOf(arr) == { p \in DOMAIN arr.px : arr.px[p].a = 255 }

WithMask(arr, ones) ==
    WithAlpha(arr, [p \in DOMAIN arr.px |-> IF p \in ones THEN 255 ELSE 0])

\* _, base_mask = cv2.threshold(base_mask, 100, 255, cv2.THRESH_BINARY)
base_mask_threshold(ai_result) == { p \in DOMAIN ai_result.px : ai_result.px[p].a > 100 }

smart_border_trim(original_image, mask, trim_pixels) ==
    LET dom == DOMAIN original_image.px
        \* inner_mask = cv2.erode(mask, kernel_band); border_band = cv2.subtract(mask, inner_mask)
        inner_mask == Erode(mask, Box(trim_pixels * 2 + 2), dom)
        border_band == mask \ inner_mask
        \* white_pixels_in_border = (border_band > 0) & (gray > 235)
        white_pixels_in_border == { p \in border_band : Gray(original_image.px[p]) > 235 }
        refined_mask == mask \ white_pixels_in_border
    IN  IF trim_pixels > 3 THEN Erode(refined_mask, Box(2), dom) ELSE refined_mask

minimal_border_erosion(mask, erosion_pixels, dom) ==
    LET kernel_size == IF erosion_pixels > 2 THEN erosion_pixels ELSE 2
        eroded_mask == Erode(mask, Box(kernel_size), dom)
        preserved_mask == MorphOpenSet(eroded_mask, Ones3, dom)
    IN  MorphCloseSet(preserved_mask, Box(2), dom)

\* cv2.Canny(gray, 5, 15) marks a pixel only where the Sobel gradient is not zero,
\* which needs two of its eight neighbours to differ; which of those pixels it
\* marks is the detector's choice
NonFlat(original_image) ==
    LET dom == DOMAIN original_image.px
        Around(p) == { Shift(p, d) : d \in Ones3 \ {<<0, 0>>} } \cap dom
    IN  { p \in dom : \E q, r \in Around(p) :
            Gray(original_image.px[q]) # Gray(original_image.px[r]) }

\* protected_edges = cv2.dilate(edges, np.ones((3, 3)))
protected_edges(edgeSet, dom) == Dilate(edgeSet, Ones3, dom)

\* final_mask = cv2.bitwise_or(final_mask, protected_edges);
\* final_mask = cv2.morphologyEx(final_mask, cv2.MORPH_CLOSE, np.ones((2, 2)))
protect_and_close(final_mask, edgeSet, dom) ==
    MorphCloseSet(final_mask \cup protected_edges(edgeSet, dom), Box(2), dom)

TrimDim == 7

TrimCentre == <<TrimDim \div 2, TrimDim \div 2>>

TrimBlock == { Shift(TrimCentre, d) : d \in Ones3 }

\* the levels the usage text names
TrimLevels == {3, 5, 7}

\* opacities of the model on either side of the cutoff 100
TrimAlphas == {0, 100, 101, 255}

TrimProg == "trim_white_border_carefully"

\* a red picture whose centre pixel is red or white; the model gives one opacity to
\* the block around the centre and one to the rest
InitTrim ==
    /\ \E c \in {Red, White}, inside \in TrimAlphas, outside \in TrimAlphas :
        orig = [h |-> TrimDim, w |-> TrimDim,
                px |-> [p \in Pixels(TrimDim, TrimDim) |->
                          LET col == IF p = TrimCentre THEN c ELSE Red
                          IN  Pixel(col[1], col[2], col[3],
                                    IF p \in TrimBlock THEN inside ELSE outside)]]
    /\ img = NoImage
    /\ thr \in TrimLevels
    /\ thrE = 0
    /\ flags = AllStages
    /\ prog = TrimProg
    /\ pc = "segment"
    /\ raised = "none"
    /\ ret = "none"
    /\ exists = TRUE
    /\ outfile = Absent
    /\ NoAux

TrimAt(at) ==
    /\ prog = TrimProg
    /\ pc = at

TrimStep(at) ==
    /\ pc' = at
    /\ UNCHANGED <<orig, thr, thrE, flags, prog, raised, ret, exists, outfile, aux>>

\* lines 91-96: the model's mask, made binary
Trim_base_mask ==
    /\ TrimAt("segment")
    /\ img' = WithMask(orig, base_mask_threshold(orig))
    /\ TrimStep("trim")

\* line 100
Trim_smart_border_trim ==
    /\ TrimAt("trim")
    /\ img' = WithMask(img, smart_border_trim(orig, MaskOf(img), thr))
    /\ TrimStep("erosion")

\* line 104
Trim_minimal_border_erosion ==
    /\ TrimAt("erosion")
    /\ img' = WithMask(img, minimal_border_erosion(MaskOf(img), thr \div 2, DOMAIN img.px))
    /\ TrimStep("protect")

\* lines 108-121: the edge map, the protection zone, the union and the closing
Trim_protect_and_close ==
    /\ TrimAt("protect")
    /\ \E e \in SUBSET NonFlat(orig) :
        /\ canny' = e
        /\ img' = WithMask(img, protect_and_close(MaskOf(img), e, DOMAIN img.px))
    /\ pc' = "save"
    /\ UNCHANGED <<orig, thr, thrE, flags, prog, raised, ret, exists, outfile,
                   members, exitcode, batch>>

\* lines 124-128: the mask becomes the alpha channel of the picture and is saved
Trim_save ==
    /\ TrimAt("save")
    /\ outfile' = [status |-> "written", data |-> img]
    /\ pc' = "done"
    /\ ret' = "True"
    /\ UNCHANGED <<img, orig, thr, thrE, flags, prog, raised, exists, aux>>

\* lines 146-148: the model or the save raised; the function returns False
Trim_except ==
    /\ prog = TrimProg
    /\ pc \in {"segment", "save"}
    /\ raised' = pc
    /\ pc' = "failed"
    /\ ret' = "False"
    /\ UNCHANGED <<img, orig, thr, thrE, flags, prog, exists, outfile, aux>>

NextTrim ==
    \/ Trim_base_mask
    \/ Trim_smart_border_trim
    \/ Trim_minimal_border_erosion
    \/ Trim_protect_and_close
    \/ Trim_save
    \/ Trim_except

SpecTrim == InitTrim /\ [][NextTrim]_vars

\* C18: in trim_white_border_carefully every pixel of the protection mask (the
\* dilated edge map of the original image) has opacity 255 in the mask written to
\* the output, whatever the trimming and erosion stages decided for it.
C18_ProtectionWins ==
    prog = TrimProg /\ outfile.status = "written" =>
        \A p \in protected_edges(canny, DOMAIN outfile.data.px) :
            outfile.data.px[p].a = 255

(***************************************************************************)
(* connect_components on chains of components                              *)
(***************************************************************************)

\* a corner group of up to three pixels, a pair two columns to its right, a pixel
\* two columns right of that pair, and a far pixel
ChainProbes == {<<0, 0>>, <<0, 1>>, <<1, 0>>, <<0, 3>>, <<1, 4>>, <<1, 6>>, <<9, 9>>}

InitChain ==
    /\ img \in ProbeImages(CompDim, CompDim, ChainProbes, {Red}, SmoothAlphas)
    /\ orig = img
    /\ thr = 50
    /\ thrE = 150
    /\ NoRun

NextChain == Do_connect_components

SpecChain == InitChain /\ [][NextChain]_vars

\* cv2.dilate(mask, kernel, iterations=2) with the 3x3 ellipse: the proximity region
Expanded(mask, dom) == Dilate(Dilate(mask, Ellipse3, dom), Ellipse3, dom)

\* C19: in connect_components a small non-largest component is retained if it
\* overlaps the proximity-dilated region of a kept component that ranks before it
\* (the main component or a larger retained one), and is dropped otherwise: a
\* retained one overlaps the region of some other kept component of at least its size.
C19_ProximityToAnyKept ==
    (prog = "connect_components" /\ Cardinality(InputRegions) >= 2) =>
        LET regions == InputRegions
            dom == DOMAIN orig.px
            kept == { c \in regions : RegionKept(c) }
            top == CHOOSE n \in 1 .. Cardinality(dom) :
                       /\ \A d \in regions : Cardinality(d) <= n
                       /\ \E d \in regions : Cardinality(d) = n
        IN  \A c \in regions :
                (Cardinality(c) < small_component_limit /\ Cardinality(c) < top) =>
                    /\ (\E k \in kept : /\ Cardinality(k) > Cardinality(c)
                                        /\ Expanded(k, dom) \cap c # {})
                            => RegionKept(c)
                    /\ RegionKept(c) =>
                            \E k \in kept \ {c} : /\ Cardinality(k) >= Cardinality(c)
                                                  /\ Expanded(k, dom) \cap c # {}

(***************************************************************************)
(* connect_components on components around the small-component limit       *)
(***************************************************************************)

\* height of the arrays: with it a block some 31 to 34 columns wide holds about
\* 1000 pixels
LargeH == 32

LargeW == 2 * LargeH + 6

\* a block of full height on the left, a gap, and a second block of full height
LargeImage(left, gap, right, a) ==
    [h |-> LargeH, w |-> LargeW,
     px |-> [p \in Pixels(LargeH, LargeW) |->
               IF p[2] < left \/ (p[2] >= left + gap /\ p[2] < left + gap + right)
               THEN Pixel(255, 0, 0, a) ELSE Pixel(0, 0, 0, 0)]]

InitLarge ==
    /\ \E left \in LargeH - 1 .. LargeH + 2, gap \in 1 .. 3,
          right \in LargeH - 1 .. LargeH + 1, a \in {120, 255} :
            img = LargeImage(left, gap, right, a)
    /\ orig = img
    /\ thr = 50
    /\ thrE = 150
    /\ NoRun

NextLarge == Do_connect_components

SpecLarge == InitLarge /\ [][NextLarge]_vars

\* C20: in connect_components every non-largest component whose area is at or
\* above the small-component limit (1000 pixels) is retained in the output.
C20_LargeComponentsKept ==
    prog = "connect_components" =>
        LET regions == Regions(Visible(orig))
        IN  \A c \in regions :
                (/\ Cardinality(c) >= small_component_limit
                 /\ \E d \in regions : Cardinality(d) > Cardinality(c))
                    => RegionKept(c)

(***************************************************************************)
(* connect_main_components: what is kept and what is dropped               *)
(***************************************************************************)
RegionDropped(c) == \A p \in c : img.px[p].a = 0

Do_connect_character_elements ==
    /\ Idle
    /\ img' = connect_character_elements(img)
    /\ Finish("connect_character_elements")

NextElements == Do_connect_character_elements

SpecElements == InitChain /\ [][NextElements]_vars

\* dilated = cv2.dilate(cv2.dilate(binary, kernel_small), kernel_medium)
ProgressiveDilation(binary, dom) == Dilate(Dilate(binary, Ellipse3, dom), Ellipse5, dom)

\* C22: when the mask has two or more components and two of them lie in one
\* connected region of the progressive dilation (3x3 then 5x5 ellipse), the two
\* belong to one connected component of the output of connect_character_elements,
\* and the output has fewer components than the input.
C22_ElementsConnected ==
    prog = "connect_character_elements" =>
        LET regions == InputRegions
            dilated == ProgressiveDilation(Visible(orig), DOMAIN orig.px)
        IN  \A c, d \in regions :
                (c # d /\ d \subseteq Grow(c, dilated)) =>
                    /\ d \subseteq Grow(c, Visible(img))
                    /\ Cardinality(Regions(Visible(img))) < Cardinality(regions)

(***************************************************************************)
(* Batch processing: paths, the output directory and the output files      *)
(*                                                                         *)
(* A path is the sequence of its names and separators; the file system is  *)
(* the set of the directories that exist, each the sequence of its names   *)
(* below the working directory. batch holds output_dir, the directories,   *)
(* the listing, the position, results and the files written so far.        *)
(***************************************************************************)
Sep == "/"

\* the names of a path, separators left out
Components(path) == SelectSeq(path, LAMBDA t : t # Sep)

LastIndex(path, t) ==
    LET at == { j \in 1 .. Len(path) : path[j] = t }
    IN  IF at = {} THEN 0 ELSE CHOOSE j \in at : \A k \in at : k <= j

RECURSIVE StripSeps(_)
\* head.rstrip('/')
StripSeps(path) ==
    IF path # <<>> /\ path[Len(path)] = Sep THEN StripSeps(SubSeq(path, 1, Len(path) - 1))
    ELSE path

\* os.path.dirname: what stands before the last separator, without the separators
\* at its end unless it is made of separators only
dirname(path) ==
    LET head == SubSeq(path, 1, LastIndex(path, Sep))
    IN  IF head # <<>> /\ StripSeps(head) # <<>> THEN StripSeps(head) ELSE head

\* os.path.join(a, b) for a relative b
join(a, b) ==
    IF a = <<>> \/ a[Len(a)] = Sep THEN a \o b ELSE a \o <<Sep>> \o b

\* os.path.splitext(filename)[0] and [1] for a name with a dot after its first character
splitext_root(filename) ==
    LET dot == LastIndex(filename, ".")
    IN  IF dot <= 1 THEN filename ELSE SubSeq(filename, 1, dot - 1)

splitext_ext(filename) ==
    LET dot == LastIndex(filename, ".")
    IN  IF dot <= 1 THEN <<>> ELSE SubSeq(filename, dot, Len(filename))

\* os.path.exists of a directory path; '' does not exist
path_exists(path, dirs) == path # <<>> /\ (Components(path) = <<>> \/ Components(path) \in dirs)

\* os.makedirs(path, exist_ok=True): the directory and every missing parent
makedirs(path, dirs) ==
    dirs \cup { SubSeq(Components(path), 1, n) : n \in 1 .. Len(Components(path)) }

\* utils.py ensure_output_dir: the directories that exist after the call
ensure_output_dir(output_path, dirs) ==
    LET output_dir == dirname(output_path)
    IN  \* if output_dir and not os.path.exists(output_dir): os.makedirs(output_dir, exist_ok=True)
        IF output_dir # <<>> /\ ~path_exists(output_dir, dirs)
        THEN makedirs(output_dir, dirs) ELSE dirs

\* SUPPORTED_INPUT_FORMATS, as far as the names below use them
SUPPORTED_INPUT_FORMATS == {<<".", "jpg">>, <<".", "png">>}

\* output_path = os.path.join(output_dir, f"{name_without_ext}_no_bg.png")
batch_output_path(output_dir, filename) ==
    join(output_dir, splitext_root(filename) \o <<"_no_bg", ".", "png">>)

\* the output directories a caller may pass: plain, nested, with or without a
\* separator at the end
OutputDirs ==
    {<<"out">>, <<"out", Sep>>, <<"a", Sep, "out">>, <<"a", Sep, "out", Sep>>}

\* the directories that may exist before the run; a directory exists with its parent
DirSets ==
    { d \in SUBSET {<<"a">>, <<"out">>, <<"a", "out">>} : <<"a", "out">> \in d => <<"a">> \in d }

FileNames == {<<"a", ".", "jpg">>, <<"a", ".", "png">>, <<"b", ".", "png">>, <<"a", ".", "txt">>}

OutLen == 2

\* os.listdir(input_dir): distinct names in any order
OutListings ==
    { l \in UNION { [1 .. n -> FileNames] : n \in 0 .. OutLen } :
        \A j, k \in 1 .. Len(l) : j # k => l[j] # l[k] }

InitOut ==
    /\ prog = "batch_process_images"
    /\ pc = "ensure"
    /\ img = NoImage
    /\ orig = NoImage
    /\ thr = 50
    /\ thrE = 150
    /\ flags = AllStages
    /\ raised = "none"
    /\ ret = "none"
    /\ exists \in BOOLEAN
    /\ outfile = Absent
    /\ members = <<>>
    /\ exitcode = -1
    /\ canny = {}
    /\ \E o \in OutputDirs, d \in DirSets, l \in (IF exists THEN OutListings ELSE {<<>>}) :
          batch = [output_dir |-> o, dirs |-> d, files |-> l, i |-> 1,
                   results |-> <<>>, written |-> <<>>]

\* if not os.path.exists(input_dir): return results
out_no_input ==
    /\ At("batch_process_images", "ensure")
    /\ ~exists
    /\ batch' = batch
    /\ BatchStep("returned")

\* ensure_output_dir(output_dir)
out_ensure ==
    /\ At("batch_process_images", "ensure")
    /\ exists
    /\ batch' = [batch EXCEPT !.dirs = ensure_output_dir(batch.output_dir, batch.dirs)]
    /\ BatchStep("files")

OutFile ==
    /\ At("batch_process_images", "files")
    /\ batch.i <= Len(batch.files)

\* validate_image rejects the extension: an entry with success False
out_invalid ==
    /\ OutFile
    /\ splitext_ext(batch.files[batch.i]) \notin SUPPORTED_INPUT_FORMATS
    /\ batch' = [batch EXCEPT !.i = @ + 1,
                   !.results = Append(@, [input_file |-> batch.files[batch.i],
                                          output_path |-> <<>>, success |-> FALSE])]
    /\ BatchStep("files")

\* remover_instance.remove_background(file_path, output_path): the pipeline succeeds
\* or not; result_final.save raises when the directory of output_path is missing,
\* and the call then returns False
out_process ==
    /\ OutFile
    /\ splitext_ext(batch.files[batch.i]) \in SUPPORTED_INPUT_FORMATS
    /\ \E pipeline_ok \in BOOLEAN :
        LET filename == batch.files[batch.i]
            output_path == batch_output_path(batch.output_dir, filename)
            success == pipeline_ok /\ path_exists(dirname(output_path), batch.dirs)
        IN  batch' = [batch EXCEPT
                !.i = @ + 1,
                !.results = Append(@, [input_file |-> filename,
                                       output_path |-> output_path, success |-> success]),
                !.written = IF success
                            THEN [q \in DOMAIN @ \cup {Components(output_path)} |->
                                    IF q = Components(output_path) THEN filename ELSE @[q]]
                            ELSE @]
    /\ BatchStep("files")

\* return results
out_return ==
    /\ At("batch_process_images", "files")
    /\ batch.i > Len(batch.files)
    /\ batch' = batch
    /\ BatchStep("returned")

NextOut ==
    \/ out_no_input
    \/ out_ensure
    \/ out_invalid
    \/ out_process
    \/ out_return

SpecOut == InitOut /\ [][NextOut]_vars

\* C23: once batch_process_images has run its ensure step, the directory output_dir
\* itself exists, for every output_dir path: existing or not, nested or not, with
\* or without a separator at its end.
C23_OutputDirExists ==
    (prog = "batch_process_images" /\ pc \in {"files", "returned"} /\ exists) =>
        path_exists(batch.output_dir, batch.dirs)

\* C28: within one batch_process_images run distinct input files are written to
\* distinct output paths: the output file of every entry reported with success
\* True still holds the result of that entry's input file.
C28_OutputsNotOverwritten ==
    prog = "batch_process_images" /\ pc \in {"files", "returned"} =>
        \A j \in 1 .. Len(batch.results) :
            batch.results[j].success =>
                /\ Components(batch.results[j].output_path) \in DOMAIN batch.written
                /\ batch.written[Components(batch.results[j].output_path)]
                        = batch.results[j].input_file
                /\ \A k \in 1 .. Len(batch.results) :
                        (k # j /\ batch.results[k].success) =>
                            batch.results[k].output_path # batch.results[j].output_path

(***************************************************************************)
(* bg_remove_final.py: create_sharp_mask                                   *)
(***************************************************************************)

\* arithmetic of a uint8 array with Python integers that fit in 8 bits: the result
\* stays uint8
U8(n) == n % 256

\* method == 'binary': np.where(alpha_array > 127, 255, 0)
create_sharp_mask_binary(alpha_channel) ==
    WithAlpha(alpha_channel,
        [p \in DOMAIN alpha_channel.px |-> IF alpha_channel.px[p].a > 127 THEN 255 ELSE 0])

\* method == 'threshold', one entry of alpha_array
sharp_threshold(a) ==
    LET threshold_high == 200
        threshold_low == 50
    IN  \* np.where(alpha_array > threshold_high, 255, np.where(alpha_array < threshold_low, 0,
        \*     (alpha_array - threshold_low) * 255 // (threshold_high - threshold_low)))
        IF a > threshold_high THEN 255
        ELSE IF a < threshold_low THEN 0
        ELSE U8(U8(a - threshold_low) * 255) \div (threshold_high - threshold_low)

create_sharp_mask_threshold(alpha_channel) ==
    WithAlpha(alpha_channel,
        [p \in DOMAIN alpha_channel.px |-> sharp_threshold(alpha_channel.px[p].a)])

SharpW == 2

\* opacities around the two cutoffs and between them
SharpAlphas == {0, 49, 50, 51, 52, 100, 125, 199, 200, 201, 255}

InitSharp ==
    /\ img \in MaskImages(1, SharpW, {Red}, SharpAlphas)
    /\ orig = img
    /\ thr = 50
    /\ thrE = 150
    /\ NoRun

Do_create_sharp_mask_threshold ==
    /\ Idle
    /\ img' = create_sharp_mask_threshold(img)
    /\ Finish("create_sharp_mask_threshold")

Do_create_sharp_mask_binary ==
    /\ Idle
    /\ img' = create_sharp_mask_binary(img)
    /\ Finish("create_sharp_mask_binary")

NextSharp ==
    \/ Do_create_sharp_mask_threshold
    \/ Do_create_sharp_mask_binary

SpecSharp == InitSharp /\ [][NextSharp]_vars

\* C24: create_sharp_mask with method 'threshold' maps opacity a to 255 when
\* a > 200, to 0 when a < 50 and to floor((a - 50) * 255 / 150) in between, and the
\* mapping is monotone non-decreasing.
C24_SharpThresholdRamp ==
    prog = "create_sharp_mask_threshold" =>
        /\ \A p \in DOMAIN img.px :
            LET a == orig.px[p].a
            IN  img.px[p].a = (IF a > 200 THEN 255
                               ELSE IF a < 50 THEN 0
                               ELSE ((a - 50) * 255) \div 150)
        /\ \A p, q \in DOMAIN img.px :
            orig.px[p].a <= orig.px[q].a => img.px[p].a <= img.px[q].a

(***************************************************************************)
(* direct_white_cleanup.py: simple_border_cleanup                          *)
(*                                                                         *)
(* orig is ai_result (the colours of the input, the opacity of the model), *)
(* img carries the mask of the current step, thr is white_threshold.       *)
(***************************************************************************)

\* np.all(img_array >= white_threshold, axis=2)
is_white(px, white_threshold) ==
    px.r >= white_threshold /\ px.g >= white_threshold /\ px.b >= white_threshold

\* the mask without the pixels that are in it and white
direct_white_pixel_removal(original_image, mask, white_threshold) ==
    mask \ { p \in mask : is_white(original_image.px[p], white_threshold) }

RECURSIVE WhiteRemovalLoop(_, _, _, _, _)
\* the loop of iterative_white_removal from iteration i on
WhiteRemovalLoop(original_image, current_mask, i, iterations, threshold_step) ==
    IF i >= iterations THEN current_mask
    ELSE LET initial_threshold == 250
             current_threshold == initial_threshold - (i * threshold_step)
             cleaned_mask ==
                direct_white_pixel_removal(original_image, current_mask, current_threshold)
             original_pixels == Cardinality(current_mask)
             cleaned_pixels == Cardinality(cleaned_mask)
         IN  \* loss_percentage = (original_pixels - cleaned_pixels) / original_pixels * 100;
             \* with an empty mask it is nan and the comparison is False
             IF original_pixels > 0 /\ (original_pixels - cleaned_pixels) * 100 < 8 * original_pixels
             THEN WhiteRemovalLoop(original_image, cleaned_mask, i + 1, iterations, threshold_step)
             ELSE current_mask

iterative_white_removal(original_image, mask, iterations, threshold_step) ==
    WhiteRemovalLoop(original_image, mask, 0, iterations, threshold_step)

\* cv2.GaussianBlur(mask, (3, 3), 0.5) of a 0/255 plane, rounded to uint8, then
\* cv2.threshold(..., 127, 255, cv2.THRESH_BINARY)
blur_and_threshold(mask, h, w) ==
    LET dom == Pixels(h, w)
        plane == [p \in dom |-> IF p \in mask THEN 255 ELSE 0]
        blurred == GaussianBlur(plane, h, w, GaussKernel_05)
    IN  { p \in dom : (blurred[p] + Million \div 2) \div Million > 127 }

CleanupDim == 4

CleanupCorner == <<0, 0>>

CleanupInner == <<CleanupDim \div 2, CleanupDim \div 2>>

\* the thresholds the usage text names
WhiteThresholds == {240, 245, 250}

\* red and three greys: below every threshold, between 240 and 245, between 245
\* and 250
CleanupColours == {Red, <<230, 230, 230>>, <<242, 242, 242>>, <<247, 247, 247>>}

CleanupProg == "simple_border_cleanup"

\* a red picture with two pixels of any of the colours; the model finds the whole
\* picture, or all of it but the inner pixel
InitCleanup ==
    /\ \E c1 \in CleanupColours, c2 \in CleanupColours, a \in {100, 255} :
        orig = [h |-> CleanupDim, w |-> CleanupDim,
                px |-> [p \in Pixels(CleanupDim, CleanupDim) |->
                          LET col == IF p = CleanupCorner THEN c1
                                     ELSE IF p = CleanupInner THEN c2 ELSE Red
                          IN  Pixel(col[1], col[2], col[3],
                                    IF p = CleanupInner THEN a ELSE 255)]]
    /\ img = NoImage
    /\ thr \in WhiteThresholds
    /\ thrE = 0
    /\ flags = AllStages
    /\ prog = CleanupProg
    /\ pc = "segment"
    /\ raised = "none"
    /\ ret = "none"
    /\ exists = TRUE
    /\ outfile = Absent
    /\ NoAux

CleanupStep(from, to) ==
    /\ prog = CleanupProg
    /\ pc = from
    /\ pc' = to
    /\ UNCHANGED <<orig, thr, thrE, flags, prog, raised, ret, exists, outfile, aux>>

\* lines 92-99: the model's mask, made binary
Cleanup_base_mask ==
    /\ img' = WithMask(orig, base_mask_threshold(orig))
    /\ CleanupStep("segment", "whites")

\* line 105: iterative_white_removal(original_rgb, base_mask, iterations=3, threshold_step=3)
Cleanup_iterative_white_removal ==
    /\ img' = WithMask(img, iterative_white_removal(orig, MaskOf(img), 3, 3))
    /\ CleanupStep("whites", "close")

\* lines 109-110: closing with np.ones((2, 2))
Cleanup_close ==
    /\ img' = WithMask(img, MorphCloseSet(MaskOf(img), Box(2), DOMAIN img.px))
    /\ CleanupStep("close", "blur")

\* lines 114-115
Cleanup_blur_and_threshold ==
    /\ img' = WithMask(img, blur_and_threshold(MaskOf(img), img.h, img.w))
    /\ CleanupStep("blur", "save")

\* lines 118-122: the mask becomes the alpha channel of the picture and is saved
Cleanup_save ==
    /\ prog = CleanupProg
    /\ pc = "save"
    /\ outfile' = [status |-> "written", data |-> img]
    /\ pc' = "done"
    /\ ret' = "True"
    /\ UNCHANGED <<img, orig, thr, thrE, flags, prog, raised, exists, aux>>

\* lines 140-142: the model or the save raised; the function returns False
Cleanup_except ==
    /\ prog = CleanupProg
    /\ pc \in {"segment", "save"}
    /\ raised' = pc
    /\ pc' = "failed"
    /\ ret' = "False"
    /\ UNCHANGED <<img, orig, thr, thrE, flags, prog, exists, outfile, aux>>

NextCleanup ==
    \/ Cleanup_base_mask
    \/ Cleanup_iterative_white_removal
    \/ Cleanup_close
    \/ Cleanup_blur_and_threshold
    \/ Cleanup_save
    \/ Cleanup_except

SpecCleanup == InitCleanup /\ [][NextCleanup]_vars

\* C25: in simple_border_cleanup the caller's white_threshold decides which pixels
\* count as white: the pixels of the model's mask that are missing from the written
\* mask are exactly those whose R, G and B are all at or above white_threshold, so
\* a pixel is removed only if it is white by that threshold and each threshold
\* removes the set it selects.
C25_CallerThresholdDecides ==
    prog = CleanupProg /\ outfile.status = "written" =>
        LET base_mask == base_mask_threshold(orig)
        IN  base_mask \ MaskOf(outfile.data)
                = { p \in base_mask : is_white(orig.px[p], thr) }

(***************************************************************************)
(* The transparency fix and the background                                 *)
(***************************************************************************)

\* C26: for every threshold in 0..255, every pixel whose opacity is 0 before
\* fix_partial_transparencies, _fix_partial_transparencies or _fix_transparencies
\* still has opacity 0 afterwards.
C26_BackgroundStaysBackground ==
    (prog \in PreserveResolvers /\ thr \in 0 .. 255) =>
        \A p \in DOMAIN img.px : orig.px[p].a = 0 => img.px[p].a = 0

(***************************************************************************)
(* The package pipeline after its resolver                                 *)
(***************************************************************************)

\* a step of _connect_character_elements or _remove_background_whites_only inside
\* the package pipeline that returns leaves the array as it was
LaterStagesIdle ==
    (prog = Core /\ pc \in {"connect", "whites"} /\ pc' # pc /\ raised' = "none")
        => img' = img

Darkest ==
    { p \in Visible(orig) :
        \A q \in Visible(orig) : Luminosity(orig.px[p]) <= Luminosity(orig.px[q]) }

\* C29: remove_white_pixels never erases the whole subject: if a pixel is visible
\* before the call, every visible pixel of minimum luminosity keeps its opacity,
\* so the foreground stays non-empty.
C29_DarkestStaysVisible ==
    (prog = "remove_white_pixels" /\ Visible(orig) # {}) =>
        /\ \A p \in Darkest : img.px[p].a = orig.px[p].a
        /\ Visible(img) # {}

\* the filter removed a white pixel and kept the darker red one
C29_Witness ==
    /\ prog = "remove_white_pixels"
    /\ RGB(orig)[Centre] = White
    /\ orig.px[Centre].a = 255
    /\ RGB(orig)[InBand] = Red
    /\ orig.px[InBand].a = 255
    /\ Visible(img) = {InBand}

(***************************************************************************)
(* The opacities the preserve script saves                                 *)
(***************************************************************************)
Binary(arr) == \A p \in DOMAIN arr.px : arr.px[p].a \in {0, 255}

\* a step of smooth_edges_preserve inside the script that returns leaves the array
\* as it was
SmootherIdle ==
    (prog = Script /\ pc = "smooth" /\ pc' # pc /\ raised' = "none") => img' = img

\* C30: the alpha channel remove_background_preserve_elements saves holds only 0
\* and 255, for every mask of the model and every threshold: from the transparency
\* fix on no stage creates an intermediate opacity, and smooth_edges_preserve
\* changes no pixel in this pipeline.
C30_SavedAlphaBinary ==
    /\ [](prog = Script /\ outfile.status = "written" => Binary(outfile.data))
    /\ [](prog = Script /\ raised = "none"
            /\ pc \in {"connect", "whites", "smooth", "save", "return"} => Binary(img))
    /\ [][SmootherIdle]_vars

\* the script saved a mask whose model output held a partial opacity and an opaque
\* pixel next to a transparent one
C30_Witness ==
    /\ prog = Script
    /\ outfile.status = "written"
    /\ thr = 150
    /\ orig.px[<<0, 0>>].a = 255
    /\ orig.px[<<0, 1>>].a = 0
    /\ orig.px[<<0, 2>>].a = 120
    /\ outfile.data.px[<<0, 0>>].a = 255
    /\ outfile.data.px[<<0, 2>>].a = 0

====
